---- MODULE Spec2Model ----
(***************************************************************************)
(* State-machine model of the task lifecycle and routing engine of         *)
(* homenet-smart-residential:                                              *)
(*   - services/task_service.py      in-memory task store (TaskService)    *)
(*   - services/db_task_service.py   DB-backed task store (DBTaskService)  *)
(*   - agents/routing_agent.py       technician registry and routing pass  *)
(*   - agents/langgraph_workflow.py  supervisor / maintenance / routing     *)
(*   - agents/maintenance_agent.py   the assessment stage and its decision  *)
(*   - agents/orchestrator.py        the site sweep                        *)
(*   - api/routes/reports.py         the water supervisor request          *)
(*   - services/notification_service.py, services/asset_service.py         *)
(***************************************************************************)
EXTENDS Integers, Sequences, FiniteSets, TLC

VARIABLES
    _tasks,               \* TaskService._tasks: the in-memory list of Task
    ret,                  \* what the last call of a TaskService method returned
    called,               \* the arguments of that call
    clock,                \* the wall clock read by _utc_now()
    TECHNICIANS,          \* routing_agent.TECHNICIANS, in dict iteration order
    state,                \* the AgentState fields the routing node reads and writes
    r_pc,                 \* routing_agent_node: "idle", or "loop" inside `for task in tasks`
    r_i,                  \* index of the next task of the for loop
    existing_assignments, \* routing_agent_node local
    new_assignments,      \* routing_agent_node local
    reg0,                 \* the registry as it was when the running pass started
    rerun,                \* TRUE while the pass re-routes a state that was routed before
    last,                 \* the last loop iteration: task, required skills, registry before, tech_id
    assigned_count,       \* per technician: "assigned" assignments issued so far in this process
    db_rows,              \* committed rows of table "tasks" (TaskDB)
    req,                  \* per concurrent caller of DBTaskService.create_task: its position and locals
    pass,                 \* per concurrent routing pass: its position and locals
    wstate,               \* the AgentState of the workflow run
    run,                  \* the graph runner: node to run next, supersteps, last node's return
    sweep,                \* monitor_site: its position in the pump loop and its results
    _notifications,       \* NotificationService._notifications: the in-memory list
    response,             \* what the last run_water_supervisor request returned
    call                  \* the last application of a function: its arguments and its result

vars == << _tasks, ret, called, clock, TECHNICIANS, state, r_pc, r_i,
           existing_assignments, new_assignments, reg0, rerun, last,
           assigned_count, db_rows, req, pass, wstate, run, sweep,
           _notifications, response, call >>

storeVars == << _tasks, ret, called, clock >>
routeVars == << TECHNICIANS, state, r_pc, r_i, existing_assignments,
                new_assignments, reg0, rerun, last, assigned_count >>
dbVars    == << db_rows, req >>
concVars  == << pass >>
flowVars  == << wstate, run, sweep >>
apiVars   == << _notifications, response, call >>

\* Python's None, where a string is expected and where an object is expected
None    == "<None>"
NoneObj == [none |-> TRUE]

\* an Optional number that is set
Some(x) == [some |-> x]

(***************************************************************************)
(* Bounds of the model                                                     *)
(***************************************************************************)
MaxStore == 2        \* create_task is offered while the store holds fewer tasks
MaxClock == 1        \* the wall clock advances at most this far
MaxTasks == 2        \* longest task list handed to a routing pass
RecursionLimit == 6  \* supersteps the graph runner allows one run

(***************************************************************************)
(* Strings are sequences of characters, so that str.lower() is computed.   *)
(***************************************************************************)
LowerChar(c) ==
    CASE c = "A" -> "a"
      [] c = "B" -> "b"
      [] c = "E" -> "e"
      [] c = "R" -> "r"
      [] c = "S" -> "s"
      [] c = "T" -> "t"
      [] c = "U" -> "u"
      [] OTHER   -> c

\* str.lower()
Lower(s) == [i \in DOMAIN s |-> LowerChar(s[i])]

\* the (title, asset_id, building_id) a caller passes: one fingerprint, the
\* same with the title in another case, and one that differs from it in
\* the title, in the asset and in the building
Fingerprints ==
    { [title |-> <<"a">>, asset_id |-> "PUMP_1", building_id |-> "BLD_1"],
      [title |-> <<"A">>, asset_id |-> "PUMP_1", building_id |-> "BLD_1"],
      [title |-> <<"b">>, asset_id |-> "PUMP_1", building_id |-> "BLD_1"],
      [title |-> <<"a">>, asset_id |-> "PUMP_2", building_id |-> "BLD_1"],
      [title |-> <<"a">>, asset_id |-> "PUMP_1", building_id |-> "BLD_2"] }

\* the (description, priority, sla_hours) a caller passes: the defaults of the
\* signature, and one payload that differs from them in every field
Payloads == { [description |-> "d1", priority |-> "MEDIUM", sla_hours |-> 24],
              [description |-> "d2", priority |-> "HIGH",   sla_hours |-> 4] }

CreateArgs ==
    { [title |-> f.title, description |-> p.description, asset_type |-> "pump",
       asset_id |-> f.asset_id, building_id |-> f.building_id,
       priority |-> p.priority, sla_hours |-> p.sla_hours] :
         f \in Fingerprints, p \in Payloads }

\* _make_id("TASK"): a random 8-hex-digit suffix, no uniqueness check
TaskIds == { "TASK_3F2A9C1B", "TASK_7D0E4A55" }

(***************************************************************************)
(* services/task_service.py                                                *)
(***************************************************************************)

\* a duplicate test that compares the titles as written
CaseSensitive_IsOpenDuplicate(t, title, asset_id, building_id) ==
    /\ t.status = "OPEN"
    /\ t.title = title
    /\ t.asset_id = asset_id
    /\ t.building_id = building_id

\* a duplicate test that looks at tasks of every status
AnyStatus_IsOpenDuplicate(t, title, asset_id, building_id) ==
    /\ Lower(t.title) = Lower(title)
    /\ t.asset_id = asset_id
    /\ t.building_id = building_id

\* the comparison inside TaskService._find_open_duplicate
IsOpenDuplicate(t, title, asset_id, building_id) ==
    /\ t.status = "OPEN"
    /\ Lower(t.title) = Lower(title)
    /\ t.asset_id = asset_id
    /\ t.building_id = building_id

\* TaskService._find_open_duplicate: the first match in list order, or None
_find_open_duplicate(tasks, title, asset_id, building_id) ==
    LET hits == { i \in DOMAIN tasks :
                    IsOpenDuplicate(tasks[i], title, asset_id, building_id) }
    IN  IF hits = {} THEN NoneObj
        ELSE tasks[CHOOSE i \in hits : \A j \in hits : i <= j]

\* the Task(...) constructed by create_task
NewTask(id, a, now) ==
    [task_id |-> id, title |-> a.title, description |-> a.description,
     asset_type |-> a.asset_type, asset_id |-> a.asset_id,
     building_id |-> a.building_id, priority |-> a.priority,
     sla_hours |-> a.sla_hours, status |-> "OPEN",
     created_at |-> now, updated_at |-> now, notes |-> None]

\* a dedup hit that overwrites the existing task with the new arguments
Touch_OnDuplicate(tasks, dup, a) ==
    [i \in DOMAIN tasks |->
        IF tasks[i] = dup
        THEN [dup EXCEPT !.description = a.description,
                         !.priority = a.priority, !.sla_hours = a.sla_hours]
        ELSE tasks[i]]

\* `if dup: return asdict(dup)`: the store after a dedup hit
OnDuplicate(tasks, dup, a) == tasks

\* TaskService.create_task
create_task(a) ==
    /\ LET dup == _find_open_duplicate(_tasks, a.title, a.asset_id, a.building_id)
       IN  IF dup # NoneObj
           THEN /\ _tasks' = OnDuplicate(_tasks, dup, a)
                /\ ret' = dup
           ELSE /\ Len(_tasks) < MaxStore
                /\ \E id \in TaskIds :
                     LET task == NewTask(id, a, clock)
                     IN  /\ _tasks' = Append(_tasks, task)
                         /\ ret' = task
    /\ called' = a
    /\ UNCHANGED << clock, routeVars, dbVars, concVars, flowVars, apiVars >>

CreateTask == \E a \in CreateArgs : create_task(a)

\* time passes between two calls
Tick ==
    /\ clock < MaxClock
    /\ called # NoneObj
    /\ clock' = clock + 1
    /\ UNCHANGED << _tasks, ret, called, routeVars, dbVars, concVars, flowVars, apiVars >>

\* the create_task calls of the history scenario: one title and asset in
\* two buildings
HistoryArgs ==
    { a \in CreateArgs : /\ a.title = <<"a">> /\ a.asset_id = "PUMP_1"
                         /\ a.description = "d1" }

HistoryCreate == \E a \in HistoryArgs : create_task(a)

\* api/schemas.py TaskStatus
TaskStatuses == { "OPEN", "IN_PROGRESS", "DONE", "CANCELLED" }

\* a status transition of one task: work on an OPEN task starts, finishes or
\* is called off
update_status ==
    /\ \E i \in DOMAIN _tasks, status \in TaskStatuses \ { "OPEN" } :
         /\ _tasks[i].status = "OPEN"
         /\ _tasks' = [_tasks EXCEPT ![i].status = status]
         /\ called' = [op |-> "update_status", task_id |-> _tasks[i].task_id,
                       status |-> status]
    /\ ret' = NoneObj
    /\ UNCHANGED << clock, routeVars, dbVars, concVars, flowVars, apiVars >>

\* `if building_id:`, `if status:`: None and "" are false
Truthy(s) == s # None /\ s # ""

\* `if limit:`: None and 0 are false
TruthyInt(n) == n # NoneObj /\ n.some # 0

\* a filter that keeps the tasks matching either of the given values
Either_Filtered(tasks, building_id, status) ==
    SelectSeq(tasks, LAMBDA t :
        \/ ~ Truthy(building_id) /\ ~ Truthy(status)
        \/ Truthy(building_id) /\ t.building_id = building_id
        \/ Truthy(status) /\ t.status = status)

\* lines 51-55: the two list comprehensions
Filtered(tasks, building_id, status) ==
    SelectSeq(tasks, LAMBDA t :
        /\ Truthy(building_id) => t.building_id = building_id
        /\ Truthy(status) => t.status = status)

\* sorted(..., reverse=True) is stable: among tasks of equal created_at the
\* order of the list is kept
RECURSIVE InsertByCreatedDesc(_, _)
InsertByCreatedDesc(sorted, t) ==
    IF sorted = << >> THEN << t >>
    ELSE IF Head(sorted).created_at >= t.created_at
         THEN << Head(sorted) >> \o InsertByCreatedDesc(Tail(sorted), t)
         ELSE << t >> \o sorted

\* line 57: sorted(tasks, key=lambda t: t.created_at, reverse=True)
RECURSIVE SortByCreatedDesc(_)
SortByCreatedDesc(tasks) ==
    IF tasks = << >> THEN << >>
    ELSE InsertByCreatedDesc(SortByCreatedDesc(SubSeq(tasks, 1, Len(tasks) - 1)),
                             tasks[Len(tasks)])

\* tasks[:n]
SliceTo(tasks, n) ==
    IF n >= 0
    THEN SubSeq(tasks, 1, IF n < Len(tasks) THEN n ELSE Len(tasks))
    ELSE SubSeq(tasks, 1, IF Len(tasks) + n > 0 THEN Len(tasks) + n ELSE 0)

\* lines 58-59: `if limit: tasks = tasks[:limit]`
Limited(tasks, limit) ==
    IF TruthyInt(limit) THEN SliceTo(tasks, limit.some) ELSE tasks

\* TaskService.list_tasks: the list it returns
list_tasks(tasks, building_id, status, limit) ==
    Limited(SortByCreatedDesc(Filtered(tasks, building_id, status)), limit)

\* a listing that keeps its filtered list as the store
Rebinding_StoreAfterList(tasks, filtered) == filtered

\* line 50: `tasks = self._tasks`, and the local name alone is rebound after
StoreAfterList(tasks, filtered) == tasks

\* the arguments GET /tasks passes on: each filter absent or given, alone and
\* together, an empty building_id, and a limit of 0 and of 1 with and
\* without a filter
ListCalls ==
    { [op |-> "list_tasks", building_id |-> b, status |-> s, limit |-> NoneObj] :
        b \in { None, "BLD_1" }, s \in { None, "DONE" } }
    \cup { [op |-> "list_tasks", building_id |-> "", status |-> "OPEN", limit |-> NoneObj] }
    \cup { [op |-> "list_tasks", building_id |-> b, status |-> None, limit |-> Some(n)] :
             b \in { None, "BLD_1" }, n \in { 0, 1 } }

\* one call of TaskService.list_tasks
ListTasks ==
    /\ \E c \in ListCalls :
         /\ ret' = list_tasks(_tasks, c.building_id, c.status, c.limit)
         /\ called' = c
         /\ _tasks' = StoreAfterList(_tasks, Filtered(_tasks, c.building_id, c.status))
    /\ UNCHANGED << clock, routeVars, dbVars, concVars, flowVars, apiVars >>

(***************************************************************************)
(* services/db_task_service.py, db/crud.py, db/models.py                   *)
(***************************************************************************)
\* SQL LIKE: % matches any run of characters, _ matches one character
RECURSIVE LikeMatch(_, _)
LikeMatch(text, pattern) ==
    IF pattern = << >> THEN text = << >>
    ELSE IF Head(pattern) = "%"
         THEN \/ LikeMatch(text, Tail(pattern))
              \/ text # << >> /\ LikeMatch(Tail(text), pattern)
         ELSE /\ text # << >>
              /\ Head(pattern) = "_" \/ Head(pattern) = Head(text)
              /\ LikeMatch(Tail(text), Tail(pattern))

\* column.ilike(pattern): LIKE without regard to case
ILike(text, pattern) == LikeMatch(Lower(text), Lower(pattern))

\* the filter of the duplicate query of DBTaskService.create_task
DbIsOpenDuplicate(row, title, asset_id, building_id) ==
    /\ row.status = "OPEN"
    /\ ILike(row.title, title)
    /\ row.asset_id = asset_id
    /\ row.building_id = building_id

\* the callers that may be inside DBTaskService.create_task at once, each
\* with a Session of its own
DbCallers == { "request_1", "request_2" }

\* what the concurrent callers pass
DbArgs == { a \in CreateArgs : a.asset_id = "PUMP_1" /\ a.building_id = "BLD_1" }

IdleReq == [pc |-> "idle", args |-> NoneObj, result |-> NoneObj]

\* callers that have run the duplicate query and not yet committed
PendingInserts == { c \in DbCallers : req[c].pc = "insert" }

\* DBTaskService.create_task up to `if existing: return`: the duplicate query;
\* .first() without ORDER BY returns any matching row
DbLookup(c) ==
    /\ req[c].pc = "idle"
    /\ \E a \in DbArgs :
         LET hits == { i \in DOMAIN db_rows :
                         DbIsOpenDuplicate(db_rows[i], a.title, a.asset_id, a.building_id) }
         IN  IF hits # {}
             THEN \E i \in hits :
                    req' = [req EXCEPT ![c] = [pc |-> "idle", args |-> a,
                                               result |-> db_rows[i]]]
             ELSE /\ Len(db_rows) + Cardinality(PendingInserts) < MaxStore
                  /\ req' = [req EXCEPT ![c] = [pc |-> "insert", args |-> a,
                                                result |-> NoneObj]]
    /\ UNCHANGED << db_rows, storeVars, routeVars, concVars, flowVars, apiVars >>

\* the rest of DBTaskService.create_task: TaskDB(...), db.add, db.commit;
\* task_id is the primary key, so a commit with a task_id already in the
\* table raises IntegrityError
DbInsert(c) ==
    /\ req[c].pc = "insert"
    /\ \E id \in TaskIds :
         LET task == NewTask(id, req[c].args, clock)
         IN  IF \E i \in DOMAIN db_rows : db_rows[i].task_id = id
             THEN /\ req' = [req EXCEPT ![c].pc = "idle",
                                        ![c].result = [error |-> "IntegrityError"]]
                  /\ UNCHANGED db_rows
             ELSE /\ db_rows' = Append(db_rows, task)
                  /\ req' = [req EXCEPT ![c].pc = "idle", ![c].result = task]
    /\ UNCHANGED << storeVars, routeVars, concVars, flowVars, apiVars >>

(***************************************************************************)
(* agents/routing_agent.py                                                 *)
(***************************************************************************)
Technician(id, name, skills, available, current_load, max_capacity) ==
    [id |-> id, name |-> name, skills |-> skills, available |-> available,
     current_load |-> current_load, max_capacity |-> max_capacity]

\* the module-level registry literal, in insertion (= iteration) order
SeededTechnicians ==
    << Technician("TECH_001", "Technician A", {"pumps", "electrical", "plumbing"}, TRUE, 2, 5),
       Technician("TECH_002", "Technician B", {"pumps", "mechanical", "sensors"}, TRUE, 1, 5),
       Technician("TECH_003", "Technician C", {"plumbing", "general"}, FALSE, 5, 5),
       Technician("TECH_004", "Technician D", {"electrical", "sensors", "diagnostics"}, TRUE, 0, 5) >>

\* registries of two technicians other than the seeded one
DrawnSkills == { {"pumps", "electrical"}, {"pumps", "mechanical"}, {"general"} }
DrawnLoads  == { 1, 2, 4 }
DrawnTechnicians(id, name) ==
    { Technician(id, name, skills, available, load, 5) :
        skills \in DrawnSkills, available \in BOOLEAN, load \in DrawnLoads }
DrawnRegistries ==
    { << t1, t2 >> : t1 \in DrawnTechnicians("TECH_001", "Technician A"),
                     t2 \in DrawnTechnicians("TECH_002", "Technician B") }

\* a lookup that finds no skill for an action type outside the table
Strict_get_required_skills(action_type) ==
    CASE action_type = "urgent_inspection"     -> {"pumps", "diagnostics"}
      [] action_type = "scheduled_maintenance" -> {"pumps", "mechanical"}
      [] action_type = "enhanced_monitoring"   -> {"sensors"}
      [] action_type = "capacity_alert"        -> {"pumps", "electrical"}
      [] action_type = "capacity_monitoring"   -> {"sensors"}
      [] OTHER                                 -> {}

\* get_required_skills: skill_map.get(action_type, ["general"])
get_required_skills(action_type) ==
    CASE action_type = "urgent_inspection"     -> {"pumps", "diagnostics"}
      [] action_type = "scheduled_maintenance" -> {"pumps", "mechanical"}
      [] action_type = "enhanced_monitoring"   -> {"sensors"}
      [] action_type = "capacity_alert"        -> {"pumps", "electrical"}
      [] action_type = "capacity_monitoring"   -> {"sensors"}
      [] OTHER                                 -> {"general"}

\* task.get("action_type", "general") of routing_agent_node
TaskActionType(task) ==
    IF "action_type" \in DOMAIN task THEN task.action_type ELSE "general"

\* a sort that is not stable: an element goes before the elements of equal key
RECURSIVE Unstable_InsertByLoad(_, _)
Unstable_InsertByLoad(sorted, x) ==
    IF sorted = << >> THEN << x >>
    ELSE IF Head(sorted)[2] < x[2]
         THEN << Head(sorted) >> \o Unstable_InsertByLoad(Tail(sorted), x)
         ELSE << x >> \o sorted

\* list.sort(key=lambda x: x[1]) is stable: an element goes after every
\* element whose key is not larger
RECURSIVE InsertByLoad(_, _)
InsertByLoad(sorted, x) ==
    IF sorted = << >> THEN << x >>
    ELSE IF Head(sorted)[2] <= x[2]
         THEN << Head(sorted) >> \o InsertByLoad(Tail(sorted), x)
         ELSE << x >> \o sorted

\* the candidates left in registry order
Unsorted_SortByLoad(cands) == cands

RECURSIVE SortByLoad(_)
SortByLoad(cands) ==
    IF cands = << >> THEN << >>
    ELSE InsertByLoad(SortByLoad(SubSeq(cands, 1, Len(cands) - 1)), cands[Len(cands)])

\* first loop of assign_technician: (tech_id, current_load) of every available
\* technician with a required skill, in registry order
RECURSIVE Candidates(_, _)
Candidates(reg, required_skills) ==
    IF reg = << >> THEN << >>
    ELSE LET tech == Head(reg)
             rest == Candidates(Tail(reg), required_skills)
         IN  IF tech.available /\ (\E skill \in required_skills : skill \in tech.skills)
             THEN << << tech.id, tech.current_load >> >> \o rest
             ELSE rest

\* a fallback that takes the last available technician
RECURSIVE Last_FirstAvailable(_)
Last_FirstAvailable(reg) ==
    IF reg = << >> THEN None
    ELSE IF reg[Len(reg)].available THEN reg[Len(reg)].id
         ELSE Last_FirstAvailable(SubSeq(reg, 1, Len(reg) - 1))

\* no fallback at all
Never_FirstAvailable(reg) == None

\* second loop of assign_technician: the first available technician
RECURSIVE FirstAvailable(_)
FirstAvailable(reg) ==
    IF reg = << >> THEN None
    ELSE IF Head(reg).available THEN Head(reg).id
         ELSE FirstAvailable(Tail(reg))

\* assign_technician(task, required_skills) against registry reg
assign_technician(reg, required_skills) ==
    LET candidates == SortByLoad(Candidates(reg, required_skills))
    IN  IF candidates # << >> THEN candidates[1][1]
        ELSE FirstAvailable(reg)

\* the tasks handed to routing: the fields routing_agent_node reads
RouteTask(task_id, action_type) ==
    [task_id |-> task_id, title |-> "Inspect", action_type |-> action_type,
     priority |-> "HIGH", sla_hours |-> 6]

RouteTaskIds     == { "TASK_A", "TASK_B" }
RouteActionTypes == { "urgent_inspection", "enhanced_monitoring", "none" }
RouteTasks == { RouteTask(id, at) : id \in RouteTaskIds, at \in RouteActionTypes }

RECURSIVE SeqsUpTo(_, _)
SeqsUpTo(S, n) ==
    IF n = 0 THEN { << >> }
    ELSE LET shorter == SeqsUpTo(S, n - 1)
         IN  shorter \cup { Append(q, x) : q \in { r \in shorter : Len(r) = n - 1 }, x \in S }

TaskLists == SeqsUpTo(RouteTasks, MaxTasks)

\* task lists of one task id, for the registries drawn at Init
DrawnTaskLists ==
    SeqsUpTo({ RouteTask("TASK_A", at) : at \in RouteActionTypes }, MaxTasks)

\* index of technician tech_id in the registry
TechIndex(reg, tech_id) == CHOOSE i \in DOMAIN reg : reg[i].id = tech_id

\* a skip test that looks at the assignments of this call only
NewOnly_AlreadyAssigned(task_id, existing, new) ==
    \E i \in DOMAIN new : new[i].task_id = task_id

\* `if any(a.get("task_id") == task_id for a in existing_assignments): continue`
AlreadyAssigned(task_id, existing, new) ==
    \E i \in DOMAIN existing : existing[i].task_id = task_id

\* the assignment built when assign_technician found a technician
AssignedRecord(task, tech, now) ==
    [task_id |-> task.task_id, task_title |-> task.title,
     technician_id |-> tech.id, technician_name |-> tech.name,
     priority |-> task.priority, sla_hours |-> task.sla_hours,
     assigned_at |-> now, status |-> "assigned"]

\* the assignment built when assign_technician returned None
EscalatedRecord(task, now) ==
    [task_id |-> task.task_id, task_title |-> task.title,
     technician_id |-> None,
     technician_name |-> "ESCALATED - No available technician",
     priority |-> task.priority, sla_hours |-> task.sla_hours,
     assigned_at |-> now, status |-> "escalated"]

\* a load update that never takes the technician out of the pool
Unflagged_UpdateLoad(tech) == [tech EXCEPT !.current_load = @ + 1]

\* the capacity test with > for >=
Late_UpdateLoad(tech) ==
    LET load == tech.current_load + 1
    IN  [tech EXCEPT !.current_load = load,
                     !.available = IF load > tech.max_capacity THEN FALSE ELSE @]

\* "Update mock technician load": += 1, then the capacity test
UpdateLoad(tech) ==
    LET load == tech.current_load + 1
    IN  [tech EXCEPT !.current_load = load,
                     !.available = IF load >= tech.max_capacity THEN FALSE ELSE @]

\* build_agent_state: the fields routing reads
\* (routed: whether a routing pass has returned into this state)
FreshState == [tasks |-> << >>, assignments |-> << >>, routed |-> FALSE]

NoLast == [kind |-> "none"]

\* entry of routing_agent_node: lines 89-93
EnterRouting(st) ==
    /\ r_pc = "idle"
    /\ r_pc' = "loop"
    /\ r_i' = 1
    /\ existing_assignments' = st.assignments
    /\ new_assignments' = << >>
    /\ reg0' = TECHNICIANS
    /\ rerun' = st.routed
    /\ last' = NoLast

\* run_routing_agent(tasks): a fresh state holding tasks enters the node
RunRoutingAgent ==
    \E tasks \in TaskLists :
        /\ state' = [FreshState EXCEPT !.tasks = tasks]
        /\ EnterRouting(FreshState)
        /\ UNCHANGED << TECHNICIANS, assigned_count, storeVars, dbVars, concVars, flowVars, apiVars >>

\* routing_agent_node(state) on the state left by the previous pass
RoutingAgentNode ==
    /\ EnterRouting(state)
    /\ UNCHANGED << state, TECHNICIANS, assigned_count, storeVars, dbVars, concVars, flowVars, apiVars >>

\* a pass that selects against the registry as it was when the pass started
AtEntry_RegistrySeen(current, at_entry) == at_entry

\* assign_technician iterates the module-level TECHNICIANS at each call: the
\* registry a task is routed against is the current one
RegistrySeen(current, at_entry) == current

\* how many of the records appended by this step are "assigned" to tech_id
NewlyAssigned(before, after, tech_id) ==
    Cardinality({ i \in DOMAIN after :
                    /\ i > Len(before)
                    /\ after[i].status = "assigned"
                    /\ after[i].technician_id = tech_id })

\* one iteration of `for task in tasks`
RouteStep ==
    /\ r_pc = "loop"
    /\ r_i <= Len(state.tasks)
    /\ r_i' = r_i + 1
    /\ LET task == state.tasks[r_i]
           required_skills == get_required_skills(TaskActionType(task))
           tech_id == assign_technician(RegistrySeen(TECHNICIANS, reg0), required_skills)
       IN  IF AlreadyAssigned(task.task_id, existing_assignments, new_assignments)
           THEN /\ last' = [kind |-> "skip", task |-> task]
                /\ UNCHANGED << new_assignments, TECHNICIANS >>
           ELSE /\ last' = [kind |-> "route", task |-> task,
                            required_skills |-> required_skills,
                            registry |-> TECHNICIANS, tech_id |-> tech_id]
                /\ IF tech_id # None
                   THEN LET k == TechIndex(TECHNICIANS, tech_id)
                        IN  /\ new_assignments' =
                                 Append(new_assignments,
                                        AssignedRecord(task, TECHNICIANS[k], clock))
                            /\ TECHNICIANS' =
                                 [TECHNICIANS EXCEPT ![k] = UpdateLoad(TECHNICIANS[k])]
                   ELSE /\ new_assignments' =
                             Append(new_assignments, EscalatedRecord(task, clock))
                        /\ UNCHANGED TECHNICIANS
    /\ assigned_count' =
         [id \in DOMAIN assigned_count |->
            assigned_count[id] + NewlyAssigned(new_assignments, new_assignments', id)]
    /\ UNCHANGED << state, r_pc, existing_assignments, reg0, rerun, storeVars, dbVars, concVars, flowVars, apiVars >>

\* a return that puts the registry back to its seeded literal
Reseeding_RouteReturn ==
    /\ r_pc = "loop"
    /\ r_i > Len(state.tasks)
    /\ r_pc' = "idle"
    /\ state' = [state EXCEPT !.assignments = existing_assignments \o new_assignments,
                              !.routed = TRUE]
    /\ r_i' = 1
    /\ existing_assignments' = << >>
    /\ new_assignments' = << >>
    /\ TECHNICIANS' = SeededTechnicians
    /\ reg0' = SeededTechnicians
    /\ rerun' = FALSE
    /\ last' = NoLast
    /\ UNCHANGED << assigned_count, storeVars, dbVars, concVars, flowVars, apiVars >>

\* a return that hands back the new assignments alone
Replacing_RouteReturn ==
    /\ r_pc = "loop"
    /\ r_i > Len(state.tasks)
    /\ r_pc' = "idle"
    /\ state' = [state EXCEPT !.assignments = new_assignments, !.routed = TRUE]
    /\ r_i' = 1
    /\ existing_assignments' = << >>
    /\ new_assignments' = << >>
    /\ reg0' = TECHNICIANS
    /\ rerun' = FALSE
    /\ last' = NoLast
    /\ UNCHANGED << TECHNICIANS, assigned_count, storeVars, dbVars, concVars, flowVars, apiVars >>

\* the return of routing_agent_node, merged into the state; the locals die
RouteReturn ==
    /\ r_pc = "loop"
    /\ r_i > Len(state.tasks)
    /\ r_pc' = "idle"
    /\ state' = [state EXCEPT !.assignments = existing_assignments \o new_assignments,
                              !.routed = TRUE]
    /\ r_i' = 1
    /\ existing_assignments' = << >>
    /\ new_assignments' = << >>
    /\ reg0' = TECHNICIANS
    /\ rerun' = FALSE
    /\ last' = NoLast
    /\ UNCHANGED << TECHNICIANS, assigned_count, storeVars, dbVars, concVars, flowVars, apiVars >>

(***************************************************************************)
(* Two routing passes on two threads, over the one module-level registry.  *)
(* routing_agent.py takes no lock: between the statements of lines 103-121 *)
(* the other thread may run.                                               *)
(***************************************************************************)
ConcPasses == { "pass_1", "pass_2" }

IdlePass == [pc |-> "idle", tech_id |-> None]

\* line 104: tech_id = assign_technician(task, required_skills); a None
\* tech_id takes the escalation branch, which leaves the registry alone
PassSelect(p) ==
    /\ pass[p].pc = "idle"
    /\ \E action_type \in RouteActionTypes :
         LET tech_id == assign_technician(TECHNICIANS, get_required_skills(action_type))
         IN  pass' = [pass EXCEPT ![p] =
                        IF tech_id # None
                        THEN [pc |-> "increment", tech_id |-> tech_id]
                        ELSE IdlePass]
    /\ UNCHANGED << routeVars, storeVars, dbVars, flowVars, apiVars >>

\* line 119: TECHNICIANS[tech_id]["current_load"] += 1
PassIncrement(p) ==
    /\ pass[p].pc = "increment"
    /\ LET k == TechIndex(TECHNICIANS, pass[p].tech_id)
       IN  TECHNICIANS' = [TECHNICIANS EXCEPT ![k].current_load = @ + 1]
    /\ pass' = [pass EXCEPT ![p].pc = "flip"]
    /\ UNCHANGED << state, r_pc, r_i, existing_assignments, new_assignments, reg0,
                    rerun, last, assigned_count, storeVars, dbVars, flowVars, apiVars >>

\* lines 120-121: if current_load >= max_capacity: available = False
PassFlip(p) ==
    /\ pass[p].pc = "flip"
    /\ LET k == TechIndex(TECHNICIANS, pass[p].tech_id)
       IN  TECHNICIANS' =
             [TECHNICIANS EXCEPT ![k].available =
                IF TECHNICIANS[k].current_load >= TECHNICIANS[k].max_capacity
                THEN FALSE ELSE @]
    /\ pass' = [pass EXCEPT ![p] = IdlePass]
    /\ UNCHANGED << state, r_pc, r_i, existing_assignments, new_assignments, reg0,
                    rerun, last, assigned_count, storeVars, dbVars, flowVars, apiVars >>

(***************************************************************************)
(* agents/state.py                                                         *)
(***************************************************************************)
\* build_agent_state: the fields the nodes and the sweep read or write
\* (the forecast fields, failure_signals, current_metrics and
\* task_description only pass through)
build_agent_state(site_id, pump_id, building_id) ==
    [site_id |-> site_id, pump_id |-> pump_id, building_id |-> building_id,
     risk_score |-> NoneObj, risk_level |-> None,
     action_required |-> FALSE, action_type |-> None, priority |-> None,
     sla_hours |-> NoneObj, reasoning |-> None,
     task_title |-> None,
     tasks |-> << >>, assignments |-> << >>, messages |-> << >>,
     current_agent |-> None, next_agent |-> None]

(***************************************************************************)
(* models/predictive_maintenance/predict.py and the oracle, as the         *)
(* assessment stage sees them                                              *)
(***************************************************************************)
\* risk scores, in percent
RiskScores == { 45, 85 }

\* "Determine risk level"
RiskLevel(p) ==
    IF p >= 80 THEN "CRITICAL"
    ELSE IF p >= 60 THEN "HIGH"
    ELSE IF p >= 30 THEN "MEDIUM"
    ELSE "LOW"

\* what predict_failure_risk does: it raises (an artifact or the pump data
\* cannot be read), it returns the short record of an untrained model or an
\* unknown pump (no current_metrics), or it returns a full prediction
Predictions ==
    { [kind |-> "raises"],
      [kind |-> "short", risk_score |-> 0, risk_level |-> "UNKNOWN"] }
    \cup { [kind |-> "full", risk_score |-> p, risk_level |-> RiskLevel(p)] :
             p \in RiskScores }

\* the lines of an oracle response: "KEY: value" lines and lines with no colon
Line(key, value) == [key |-> key, value |-> value]
NoColon == [text |-> "Sure, here is my decision"]

OracleResponses ==
    { << Line("ACTION_REQUIRED", <<"t","r","u","e">>),
         Line("ACTION_TYPE", "urgent_inspection"),
         Line("PRIORITY", "CRITICAL"),
         Line("SLA_HOURS", <<"4">>),
         Line("REASONING", "Bearing wear") >>,
      << NoColon,
         Line("ACTION_REQUIRED", <<"T","R","U","E">>),
         Line("ACTION_TYPE", "enhanced_monitoring"),
         Line("PRIORITY", "MEDIUM"),
         Line("SLA_HOURS", <<"s","o","o","n">>) >>,
      << Line("ACTION_REQUIRED", <<"f","a","l","s","e">>),
         Line("ACTION_TYPE", "none"),
         Line("PRIORITY", "LOW"),
         Line("SLA_HOURS", <<"n","u","l","l">>),
         Line("REASONING", "All normal") >>,
      << NoColon >> }

\* get_llm() raises without an API key, llm.invoke raises, or a response
OracleOutcomes ==
    { [kind |-> "no_api_key"], [kind |-> "invoke_raises"] }
    \cup { [kind |-> "response", lines |-> r] : r \in OracleResponses }

(***************************************************************************)
(* agents/maintenance_agent.py                                             *)
(***************************************************************************)
\* llm_decision.get(key, default), llm_decision built line by line
Get(lines, key, default) ==
    LET hits == { i \in DOMAIN lines :
                    "key" \in DOMAIN lines[i] /\ lines[i].key = key }
    IN  IF hits = {} THEN default
        ELSE lines[CHOOSE i \in hits : \A j \in hits : j <= i].value

Digits == << "0", "1", "2", "3", "4", "5", "6", "7", "8", "9" >>
DigitValue(c) == (CHOOSE d \in DOMAIN Digits : Digits[d] = c) - 1
IsDigits(s) == s # << >> /\ \A i \in DOMAIN s : \E d \in DOMAIN Digits : Digits[d] = s[i]

RECURSIVE Int_(_)
Int_(s) == IF s = << >> THEN 0 ELSE 10 * Int_(SubSeq(s, 1, Len(s) - 1)) + DigitValue(s[Len(s)])

\* the strings int() accepts: decimal digits after an optional sign
IsIntegerLiteral(s) ==
    /\ s # << >>
    /\ IF s[1] \in {"+", "-"} THEN IsDigits(Tail(s)) ELSE IsDigits(s)

\* int(s) for such a string
IntOf(s) ==
    IF s[1] = "-" THEN 0 - Int_(Tail(s))
    ELSE IF s[1] = "+" THEN Int_(Tail(s))
    ELSE Int_(s)

\* a parse that reads 0 where int() raises
Lenient_ParseSla(sla_raw) ==
    IF sla_raw = <<"n","u","l","l">> THEN NoneObj
    ELSE IF IsIntegerLiteral(sla_raw) THEN Some(IntOf(sla_raw))
    ELSE Some(0)

\* sla_hours: int(sla_raw) if sla_raw != "null" else None, None when int raises
ParseSla(sla_raw) ==
    IF sla_raw = <<"n","u","l","l">> THEN NoneObj
    ELSE IF IsIntegerLiteral(sla_raw) THEN Some(IntOf(sla_raw))
    ELSE NoneObj

\* the task the assessment stage builds
MaintenanceTask(pump_id, action_type, priority, sla_hours) ==
    [task_id |-> "TASK_" \o pump_id,
     title |-> priority \o ": Inspect " \o pump_id,
     priority |-> priority, sla_hours |-> sla_hours,
     action_type |-> action_type, asset_id |-> pump_id]

\* an except branch that leaves no message
Silent_OnException(updates) ==
    [updates EXCEPT !.action_required = FALSE,
                    !.next_agent = "supervisor"]

\* an except branch that asks for action when the risk is CRITICAL
Alarm_OnException(updates) ==
    [updates EXCEPT !.action_required =
                        (updates.risk_score # NoneObj /\ updates.risk_level = "CRITICAL"),
                    !.next_agent = "supervisor",
                    !.messages = @ \o << "maintenance: error" >>]

\* the except branch, applied to the updates made so far
OnException(updates) ==
    [updates EXCEPT !.action_required = FALSE,
                    !.next_agent = "supervisor",
                    !.messages = @ \o << "maintenance: error" >>]

\* a decision that appends the task without looking for it in the state
Appending_Decide(st, updates, lines) ==
    LET action_required == Lower(Get(lines, "ACTION_REQUIRED", <<"f","a","l","s","e">>))
                               = <<"t","r","u","e">>
        action_type == Get(lines, "ACTION_TYPE", "none")
        priority    == Get(lines, "PRIORITY", "LOW")
        sla_hours   == ParseSla(Get(lines, "SLA_HOURS", <<"n","u","l","l">>))
        decided == [updates EXCEPT !.action_required = action_required,
                                   !.action_type = action_type,
                                   !.priority = priority,
                                   !.sla_hours = sla_hours,
                                   !.reasoning = Get(lines, "REASONING", "No reasoning provided")]
        task == MaintenanceTask(st.pump_id, action_type, priority, sla_hours)
    IN  IF action_required
        THEN [decided EXCEPT !.tasks = Append(st.tasks, task),
                             !.task_title = task.title,
                             !.messages = @ \o << "maintenance: action required" >>]
        ELSE [decided EXCEPT !.task_title = None,
                             !.messages = @ \o << "maintenance: normal" >>]

\* a decision that files the task whether or not action is required
Eager_Decide(st, updates, lines) ==
    LET action_required == Lower(Get(lines, "ACTION_REQUIRED", <<"f","a","l","s","e">>))
                               = <<"t","r","u","e">>
        action_type == Get(lines, "ACTION_TYPE", "none")
        priority    == Get(lines, "PRIORITY", "LOW")
        sla_hours   == ParseSla(Get(lines, "SLA_HOURS", <<"n","u","l","l">>))
        decided == [updates EXCEPT !.action_required = action_required,
                                   !.action_type = action_type,
                                   !.priority = priority,
                                   !.sla_hours = sla_hours,
                                   !.reasoning = Get(lines, "REASONING", "No reasoning provided")]
        task == MaintenanceTask(st.pump_id, action_type, priority, sla_hours)
    IN  IF \E i \in DOMAIN st.tasks : st.tasks[i].task_id = task.task_id
        THEN [decided EXCEPT !.messages = @ \o << "maintenance: task exists" >>]
        ELSE [decided EXCEPT !.tasks = Append(st.tasks, task),
                             !.task_title = task.title,
                             !.messages = @ \o << "maintenance: action required" >>]

\* the try block from the oracle's response on (lines 85-133)
Decide(st, updates, lines) ==
    LET action_required == Lower(Get(lines, "ACTION_REQUIRED", <<"f","a","l","s","e">>))
                               = <<"t","r","u","e">>
        action_type == Get(lines, "ACTION_TYPE", "none")
        priority    == Get(lines, "PRIORITY", "LOW")
        reasoning   == Get(lines, "REASONING", "No reasoning provided")
        sla_hours   == ParseSla(Get(lines, "SLA_HOURS", <<"n","u","l","l">>))
        decided == [updates EXCEPT !.action_required = action_required,
                                   !.action_type = action_type,
                                   !.priority = priority,
                                   !.sla_hours = sla_hours,
                                   !.reasoning = reasoning]
        task == MaintenanceTask(st.pump_id, action_type, priority, sla_hours)
        existing == \E i \in DOMAIN st.tasks : st.tasks[i].task_id = task.task_id
    IN  IF action_required
        THEN IF ~ existing
             THEN [decided EXCEPT !.tasks = Append(st.tasks, task),
                                  !.task_title = task.title,
                                  !.messages = @ \o << "maintenance: action required" >>]
             ELSE [decided EXCEPT !.messages = @ \o << "maintenance: task exists" >>]
        ELSE [decided EXCEPT !.task_title = None,
                             !.messages = @ \o << "maintenance: normal" >>]

\* maintenance_agent_node(state) when predict_failure_risk and the oracle do
\* as given: the state it returns (messages: the new ones only) and whether
\* its except branch ran
maintenance_agent_node(st, prediction, oracle) ==
    LET updates == [st EXCEPT !.current_agent = "maintenance",
                              !.next_agent = "supervisor",
                              !.messages = << "maintenance: analyzing" >>]
        analyzed == [updates EXCEPT !.risk_score = Some(prediction.risk_score),
                                    !.risk_level = prediction.risk_level]
    IN  IF prediction.kind # "full"
        THEN [state |-> OnException(updates), raised |-> TRUE]
        ELSE IF oracle.kind # "response"
        THEN [state |-> OnException(analyzed), raised |-> TRUE]
        ELSE [state |-> Decide(st, analyzed, oracle.lines), raised |-> FALSE]

(***************************************************************************)
(* agents/forecast_agent.py, the decision of the node                      *)
(***************************************************************************)
\* the task the forecast stage builds
ForecastTask(building_id, action_type, priority, sla_hours) ==
    [task_id |-> "TASK_FORECAST_" \o building_id,
     title |-> priority \o ": Capacity Alert - " \o building_id,
     priority |-> priority, sla_hours |-> sla_hours,
     action_type |-> action_type, asset_id |-> building_id]

\* forecast_agent_node(state) from the oracle's response on (lines 119-157),
\* or its except branch when forecast_water_demand raised; the state after
\* the updates are merged
forecast_agent_node(st, forecast_ok, lines) ==
    LET updates == [st EXCEPT !.current_agent = "forecast",
                              !.next_agent = "supervisor",
                              !.messages = << "forecast: analyzing" >>]
        action_required == Lower(Get(lines, "ACTION_REQUIRED", <<"f","a","l","s","e">>))
                               = <<"t","r","u","e">>
        action_type == Get(lines, "ACTION_TYPE", "none")
        priority    == Get(lines, "PRIORITY", "LOW")
        reasoning   == Get(lines, "REASONING", "No reasoning provided")
        sla_hours   == ParseSla(Get(lines, "SLA_HOURS", <<"n","u","l","l">>))
        decided == [updates EXCEPT !.action_required = action_required,
                                   !.action_type = action_type,
                                   !.priority = priority,
                                   !.sla_hours = sla_hours,
                                   !.reasoning = reasoning]
        task == ForecastTask(st.building_id, action_type, priority, sla_hours)
        existing == \E i \in DOMAIN st.tasks : st.tasks[i].task_id = task.task_id
    IN  IF ~ forecast_ok
        THEN [updates EXCEPT !.action_required = FALSE,
                             !.messages = @ \o << "forecast: error" >>]
        ELSE IF action_required
        THEN IF ~ existing
             THEN [decided EXCEPT !.tasks = Append(st.tasks, task),
                                  !.task_title = task.title,
                                  !.messages = @ \o << "forecast: capacity alert" >>]
             ELSE [decided EXCEPT !.messages = @ \o << "forecast: task exists" >>]
        ELSE [decided EXCEPT !.task_title = None,
                             !.messages = @ \o << "forecast: normal" >>]

(***************************************************************************)
(* agents/routing_agent.py, the node as one call                           *)
(***************************************************************************)
\* routing_agent_node over tasks: the registry it leaves, the assignments
\* and the messages it appends
RECURSIVE routing_pass(_, _, _, _)
routing_pass(reg, tasks, existing, now) ==
    IF tasks = << >>
    THEN [registry |-> reg, new_assignments |-> << >>, messages |-> << >>]
    ELSE LET task == Head(tasks)
         IN  IF AlreadyAssigned(task.task_id, existing, << >>)
             THEN routing_pass(reg, Tail(tasks), existing, now)
             ELSE LET tech_id == assign_technician(reg, get_required_skills(TaskActionType(task)))
                  IN  IF tech_id # None
                      THEN LET k    == TechIndex(reg, tech_id)
                               rest == routing_pass([reg EXCEPT ![k] = UpdateLoad(reg[k])],
                                                    Tail(tasks), existing, now)
                           IN  [rest EXCEPT
                                  !.new_assignments = << AssignedRecord(task, reg[k], now) >> \o @,
                                  !.messages = << "routing: assigned" >> \o @]
                      ELSE LET rest == routing_pass(reg, Tail(tasks), existing, now)
                           IN  [rest EXCEPT
                                  !.new_assignments = << EscalatedRecord(task, now) >> \o @,
                                  !.messages = << "routing: escalated" >> \o @]

(***************************************************************************)
(* agents/langgraph_workflow.py                                            *)
(***************************************************************************)
\* a supervisor that ends the run where it should hand over to routing
NoRouting_supervisor_node(st) ==
    [current_agent |-> "supervisor",
     next_agent |-> IF st.pump_id # None /\ st.risk_score = NoneObj
                    THEN "maintenance" ELSE "end",
     messages |-> << "supervisor: orchestrating" >>]

\* supervisor_node(state): the updates it returns
supervisor_node(st) ==
    LET has_pump        == st.pump_id # None
        has_analysis    == st.risk_score # NoneObj
        has_tasks       == Len(st.tasks) > 0
        has_assignments == Len(st.assignments) > 0
    IN  [current_agent |-> "supervisor",
         next_agent |-> IF has_pump /\ ~ has_analysis THEN "maintenance"
                        ELSE IF has_tasks /\ ~ has_assignments THEN "routing"
                        ELSE "end",
         messages |-> << "supervisor: orchestrating" >>]

\* the conditional edge out of supervisor
route_agent(st) ==
    IF st.next_agent = "maintenance" THEN "maintenance"
    ELSE IF st.next_agent = "routing" THEN "routing"
    ELSE "end"

\* build_workflow: the nodes of the graph
Nodes == { "supervisor", "maintenance", "routing" }

\* an edge that sends the assessment stage straight to END
ToEnd_EdgeFrom(node, st) ==
    CASE node = "supervisor"  -> route_agent(st)
      [] node = "maintenance" -> "end"
      [] node = "routing"     -> "end"

\* build_workflow: the edge taken out of node when it has returned st
EdgeFrom(node, st) ==
    CASE node = "supervisor"  -> route_agent(st)
      [] node = "maintenance" -> "supervisor"
      [] node = "routing"     -> "end"

\* the runner between two runs
IdleRun == [pc |-> "idle", steps |-> 0, node |-> None, raised |-> FALSE,
            returned |-> << >>, visited |-> {}]

\* app.invoke(initial_state): the entry point is supervisor
Invoke(initial_state) ==
    /\ run.pc \in { "idle", "end", "GraphRecursionError" }
    /\ wstate' = initial_state
    /\ run' = [IdleRun EXCEPT !.pc = "supervisor"]

\* the runner after node returned: one more superstep, the edge followed
Ran(node, raised, returned, st) ==
    [run EXCEPT !.pc = EdgeFrom(node, st),
                !.steps = @ + 1,
                !.node = node,
                !.raised = raised,
                !.returned = returned,
                !.visited = @ \cup { node }]

\* the supervisor node runs; its updates are merged, messages appended
SupervisorNode ==
    /\ run.pc = "supervisor"
    /\ run.steps < RecursionLimit
    /\ LET updates == supervisor_node(wstate)
           merged  == [wstate EXCEPT !.current_agent = updates.current_agent,
                                     !.next_agent = updates.next_agent,
                                     !.messages = @ \o updates.messages]
       IN  /\ wstate' = merged
           /\ run' = Ran("supervisor", FALSE, updates.messages, merged)
    /\ UNCHANGED << sweep, storeVars, routeVars, dbVars, concVars, apiVars >>

\* the maintenance node runs, with whatever the risk model and the oracle do
MaintenanceNode ==
    /\ run.pc = "maintenance"
    /\ run.steps < RecursionLimit
    /\ \E prediction \in Predictions, oracle \in OracleOutcomes :
         LET out    == maintenance_agent_node(wstate, prediction, oracle)
             merged == [out.state EXCEPT !.messages = wstate.messages \o @]
         IN  /\ wstate' = merged
             /\ run' = Ran("maintenance", out.raised, out.state.messages, merged)
    /\ UNCHANGED << sweep, storeVars, routeVars, dbVars, concVars, apiVars >>

\* the routing node runs over state.tasks and the module-level registry
RoutingNode ==
    /\ run.pc = "routing"
    /\ run.steps < RecursionLimit
    /\ LET existing == wstate.assignments
           out      == routing_pass(TECHNICIANS, wstate.tasks, existing, clock)
           returned == << "routing: assigning" >> \o out.messages
           merged   == [wstate EXCEPT !.current_agent = "routing",
                                      !.next_agent = "end",
                                      !.assignments = existing \o out.new_assignments,
                                      !.messages = @ \o returned]
       IN  /\ wstate' = merged
           /\ TECHNICIANS' = out.registry
           /\ assigned_count' =
                [id \in DOMAIN assigned_count |->
                   assigned_count[id] + NewlyAssigned(<< >>, out.new_assignments, id)]
           /\ run' = Ran("routing", FALSE, returned, merged)
    /\ UNCHANGED << state, r_pc, r_i, existing_assignments, new_assignments, reg0,
                    rerun, last, sweep, storeVars, dbVars, concVars, apiVars >>

\* the runner gives up: a node is still due after RecursionLimit supersteps
OutOfSteps ==
    /\ run.pc \in Nodes
    /\ run.steps >= RecursionLimit
    /\ run' = [run EXCEPT !.pc = "GraphRecursionError"]
    /\ UNCHANGED << wstate, sweep, storeVars, routeVars, dbVars, concVars, apiVars >>

\* the pumps a workflow is started for on its own
WorkflowPumps == { "PUMP_BLD_001_01", "PUMP_BLD_002_01" }

\* run_langgraph_workflow(pump_id)
run_langgraph_workflow ==
    /\ \E pump_id \in WorkflowPumps :
         Invoke(build_agent_state("SITE_001", pump_id, None))
    /\ UNCHANGED << sweep, storeVars, routeVars, dbVars, concVars, apiVars >>

\* build_workflow().invoke(build_agent_state(site_id, building_id=...)): the
\* compiled graph started for a building
InvokeForBuilding ==
    /\ Invoke(build_agent_state("SITE_001", None, "BLD_001"))
    /\ UNCHANGED << sweep, storeVars, routeVars, dbVars, concVars, apiVars >>

(***************************************************************************)
(* agents/orchestrator.py                                                  *)
(***************************************************************************)
SITES ==
    [SITE_001 |->
        [name  |-> "Chennai Residential Complex",
         pumps |-> << "PUMP_BLD_001_01", "PUMP_BLD_001_02",
                      "PUMP_BLD_002_01", "PUMP_BLD_002_02" >>]]

\* the site ids monitor_site is called with
SiteIds == { "SITE_001", "SITE_404" }

\* the results record of a sweep that has analyzed nothing yet
NewResults(site_id) ==
    [site_id |-> site_id, site_name |-> SITES[site_id].name, timestamp |-> clock,
     pumps_analyzed |-> 0, tasks_created |-> << >>,
     critical_count |-> 0, high_count |-> 0, medium_count |-> 0, low_count |-> 0,
     assignments |-> << >>, details |-> << >>]

\* a count that has no bucket for a priority outside the four names
Named_CountByPriority(results, priority) ==
    IF priority = "CRITICAL" THEN [results EXCEPT !.critical_count = @ + 1]
    ELSE IF priority = "HIGH" THEN [results EXCEPT !.high_count = @ + 1]
    ELSE IF priority = "MEDIUM" THEN [results EXCEPT !.medium_count = @ + 1]
    ELSE IF priority = "LOW" THEN [results EXCEPT !.low_count = @ + 1]
    ELSE results

\* "Count by priority"
CountByPriority(results, priority) ==
    IF priority = "CRITICAL" THEN [results EXCEPT !.critical_count = @ + 1]
    ELSE IF priority = "HIGH" THEN [results EXCEPT !.high_count = @ + 1]
    ELSE IF priority = "MEDIUM" THEN [results EXCEPT !.medium_count = @ + 1]
    ELSE [results EXCEPT !.low_count = @ + 1]

\* lines 62-97: the try block after run_langgraph_workflow returned
Collect(results, pump_id, workflow_result) ==
    LET counted == CountByPriority([results EXCEPT !.pumps_analyzed = @ + 1],
                                   workflow_result.priority)
    IN  [counted EXCEPT
           !.tasks_created = @ \o workflow_result.tasks,
           !.assignments = @ \o workflow_result.assignments,
           !.details = Append(@, [pump_id |-> pump_id,
                                  risk_score |-> workflow_result.risk_score,
                                  priority |-> workflow_result.priority,
                                  action_type |-> workflow_result.action_type,
                                  reasoning |-> workflow_result.reasoning,
                                  tasks |-> workflow_result.tasks,
                                  assignments |-> workflow_result.assignments])]

\* a sweep that gives up at the first failure
Abort_AfterFailure(i, pumps) == Len(pumps) + 1

\* the except branch sits inside the for loop: the next pump is next
AfterFailure(i, pumps) == i + 1

IdleSweep == [pc |-> "idle", site_id |-> None, i |-> 1, results |-> NoneObj,
              failed |-> {}]

\* monitor_site(site_id) up to the for loop; an unknown site returns at once
monitor_site ==
    /\ sweep.pc = "idle"
    /\ run.pc = "idle"
    /\ \E site_id \in SiteIds :
         sweep' = IF site_id \in DOMAIN SITES
                  THEN [IdleSweep EXCEPT !.pc = "loop", !.site_id = site_id,
                                         !.results = NewResults(site_id)]
                  ELSE [IdleSweep EXCEPT !.pc = "returned", !.site_id = site_id,
                                         !.results = [error |-> "Site not found"]]
    /\ UNCHANGED << wstate, run, storeVars, routeVars, dbVars, concVars, apiVars >>

\* line 60: workflow_result = run_langgraph_workflow(pump_id)
SweepCall ==
    /\ sweep.pc = "loop"
    /\ sweep.i <= Len(SITES[sweep.site_id].pumps)
    /\ Invoke(build_agent_state("SITE_001", SITES[sweep.site_id].pumps[sweep.i], None))
    /\ sweep' = [sweep EXCEPT !.pc = "call"]
    /\ UNCHANGED << storeVars, routeVars, dbVars, concVars, apiVars >>

\* the workflow returned: lines 62-99; the print of line 99 formats
\* risk_score as a percentage and raises on None, into the except branch
SweepCollect ==
    /\ sweep.pc = "call"
    /\ run.pc = "end"
    /\ LET pump_id   == SITES[sweep.site_id].pumps[sweep.i]
           collected == Collect(sweep.results, pump_id, wstate)
       IN  sweep' = IF wstate.risk_score = NoneObj
                    THEN [sweep EXCEPT !.pc = "loop", !.i = @ + 1,
                                       !.results = [collected EXCEPT !.low_count = @ + 1]]
                    ELSE [sweep EXCEPT !.pc = "loop", !.i = @ + 1,
                                       !.results = collected]
    /\ UNCHANGED << wstate, run, storeVars, routeVars, dbVars, concVars, apiVars >>

\* the workflow raised: lines 101-103
SweepExcept ==
    /\ sweep.pc = "call"
    /\ run.pc = "GraphRecursionError"
    /\ sweep' = [sweep EXCEPT !.pc = "loop",
                              !.i = AfterFailure(@, SITES[sweep.site_id].pumps),
                              !.results.low_count = @ + 1,
                              !.failed = @ \cup { sweep.i }]
    /\ UNCHANGED << wstate, run, storeVars, routeVars, dbVars, concVars, apiVars >>

\* line 105: return results
SweepReturn ==
    /\ sweep.pc = "loop"
    /\ sweep.i > Len(SITES[sweep.site_id].pumps)
    /\ sweep' = [sweep EXCEPT !.pc = "returned"]
    /\ UNCHANGED << wstate, run, storeVars, routeVars, dbVars, concVars, apiVars >>

(***************************************************************************)
(* services/asset_service.py, services/notification_service.py and         *)
(* api/routes/reports.py: the water supervisor                             *)
(***************************************************************************)
MaxNotifications == 2   \* a run that notifies is offered while the store holds fewer

\* thresholds that leave the levels 20 and 30 to the state above
Below_derive_level_state(level_pct) ==
    IF level_pct < 20 THEN "CRITICAL"
    ELSE IF level_pct < 30 THEN "LOW"
    ELSE "NORMAL"

\* AssetService._derive_level_state
_derive_level_state(level_pct) ==
    IF level_pct <= 20 THEN "CRITICAL"
    ELSE IF level_pct <= 30 THEN "LOW"
    ELSE "NORMAL"

\* the buildings a run is asked for: one with rows in water_tanks.csv, one without
WaterBuildings == { "BLD_1", "BLD_404" }

\* level_percentage of the row the chosen mode selects
LevelPercentages == { 20, 21, 30, 31 }

\* AssetService.get_tank_status_by_building: what it may return
TankStatuses(building_id) ==
    IF building_id = "BLD_404"
    THEN { [status |-> "not_found", building_id |-> building_id] }
    ELSE { [status |-> "ok", building_id |-> building_id,
            tank_id |-> "TANK_" \o building_id, level_percentage |-> pct,
            level_state |-> _derive_level_state(pct)] : pct \in LevelPercentages }

\* tank_status.get(key, default)
StatusGet(tank_status, key, default) ==
    IF key \in DOMAIN tank_status THEN tank_status[key] ELSE default

\* _make_id() of the notification service: a random 8-hex-digit suffix
NotificationIds == { "NOTIF_09C4E1AA", "NOTIF_B52D7F30" }

\* NotificationService.create_notification: the store after the append
create_notification(notifications, id, kw, now) ==
    Append(notifications,
           [notification_id |-> id, type |-> kw.type, title |-> kw.title,
            severity |-> kw.severity, building_id |-> kw.building_id,
            related_task_id |-> kw.related_task_id, created_at |-> now,
            read |-> FALSE])

\* DBTaskService.create_task as one request sees it: the outcomes it may
\* have on the committed rows (.first() returns any matching row, _make_id
\* draws any id, a commit with a task_id already in the table raises)
DbCreateOutcomes(rows, a, now) ==
    LET hits == { i \in DOMAIN rows :
                    DbIsOpenDuplicate(rows[i], a.title, a.asset_id, a.building_id) }
    IN  IF hits # {}
        THEN { [rows |-> rows, result |-> rows[i], raised |-> FALSE] : i \in hits }
        ELSE { IF \E i \in DOMAIN rows : rows[i].task_id = id
               THEN [rows |-> rows, result |-> NoneObj, raised |-> TRUE]
               ELSE [rows |-> Append(rows, NewTask(id, a, now)),
                     result |-> NewTask(id, a, now), raised |-> FALSE] :
               id \in TaskIds }

\* the create_task call of each branch of run_water_supervisor
WaterTaskArgs(level_state, tank_pct, tank_id, building_id) ==
    IF level_state = "CRITICAL"
    THEN [title |-> <<"E","m","e","r","g","e","n","c","y"," ","t","a","n","k","e","r"," ","r","e","f","i","l","l">>,
          description |-> "Tank CRITICAL (" \o ToString(tank_pct) \o "%)",
          asset_type |-> "water", asset_id |-> tank_id, building_id |-> building_id,
          priority |-> "CRITICAL", sla_hours |-> 2]
    ELSE [title |-> <<"S","c","h","e","d","u","l","e"," ","t","a","n","k","e","r"," ","r","e","f","i","l","l">>,
          description |-> "Tank LOW (" \o ToString(tank_pct) \o "%)",
          asset_type |-> "water", asset_id |-> tank_id, building_id |-> building_id,
          priority |-> "HIGH", sla_hours |-> 6]

\* `if created_tasks:`
Notifies(created_tasks) == created_tasks # << >>

\* POST /reports/water/run: run_water_supervisor, one request
run_water_supervisor ==
    \E building_id \in WaterBuildings :
      \E tank_status \in TankStatuses(building_id) :
        LET level_state == StatusGet(tank_status, "level_state", "NORMAL")
            tank_pct    == StatusGet(tank_status, "level_percentage", 0)
            tank_id     == StatusGet(tank_status, "tank_id", None)
            outcomes    ==
                IF level_state \in { "CRITICAL", "LOW" }
                THEN DbCreateOutcomes(db_rows,
                        WaterTaskArgs(level_state, tank_pct, tank_id, building_id), clock)
                ELSE { [rows |-> db_rows, result |-> NoneObj, raised |-> FALSE] }
        IN  \E o \in outcomes :
              LET created_tasks == IF o.result = NoneObj THEN << >> ELSE << o.result >>
              IN  /\ db_rows' = o.rows
                  /\ IF o.raised
                     THEN /\ response' = [error |-> "IntegrityError"]
                          /\ UNCHANGED _notifications
                     ELSE /\ response' = [status |-> "ok", building_id |-> building_id,
                                          tank_status |-> tank_status,
                                          created_tasks |-> created_tasks]
                          /\ IF Notifies(created_tasks)
                             THEN /\ Len(_notifications) < MaxNotifications
                                  /\ \E id \in NotificationIds :
                                       _notifications' =
                                         create_notification(_notifications, id,
                                            [type |-> "ALERT",
                                             title |-> "Water tank level low",
                                             severity |-> "HIGH",
                                             building_id |-> building_id,
                                             related_task_id |-> created_tasks[1].task_id],
                                            clock)
                             ELSE UNCHANGED _notifications
                  /\ UNCHANGED << req, call, storeVars, routeVars, concVars, flowVars >>

\* a flag that is flipped instead of set
Toggle_MarkRead(n) == [n EXCEPT !.read = ~ @]

\* line 85: n.read = True
MarkRead(n) == [n EXCEPT !.read = TRUE]

\* the ids mark_as_read is called with: the ids _make_id draws and one that
\* no notification has
MarkedIds == NotificationIds \cup { "NOTIF_00000000" }

\* NotificationService.mark_as_read: the first notification with the id is
\* marked, then `break`
mark_as_read ==
    /\ \E id \in MarkedIds :
         LET hits == { i \in DOMAIN _notifications :
                         _notifications[i].notification_id = id }
         IN  /\ _notifications' =
                  IF hits = {} THEN _notifications
                  ELSE [_notifications EXCEPT
                          ![CHOOSE i \in hits : \A j \in hits : i <= j] = MarkRead(@)]
             /\ response' = [op |-> "mark_as_read", notification_id |-> id]
    /\ UNCHANGED << call, storeVars, routeVars, dbVars, concVars, flowVars >>

\* NotificationService.list_notifications: the list it returns
list_notifications(notifications, building_id, unread_only, limit) ==
    LET of_building == IF Truthy(building_id)
                       THEN SelectSeq(notifications,
                                      LAMBDA n : n.building_id = building_id)
                       ELSE notifications
        unread      == IF unread_only
                       THEN SelectSeq(of_building, LAMBDA n : ~ n.read)
                       ELSE of_building
    IN  Limited(SortByCreatedDesc(unread), limit)

\* the arguments GET /notifications passes on; limit is the default of the route
NotificationListCalls ==
    { [op |-> "list_notifications", building_id |-> b, unread_only |-> u,
       limit |-> Some(10)] : b \in { None, "BLD_1" }, u \in BOOLEAN }

\* one call of NotificationService.list_notifications
ListNotifications ==
    /\ \E c \in NotificationListCalls :
         response' = [op |-> c.op, building_id |-> c.building_id,
                      unread_only |-> c.unread_only, limit |-> c.limit,
                      out |-> list_notifications(_notifications, c.building_id,
                                                 c.unread_only, c.limit)]
    /\ UNCHANGED << _notifications, call, storeVars, routeVars, dbVars, concVars,
                    flowVars >>

(***************************************************************************)
(* TaskService and DBTaskService called side by side                       *)
(***************************************************************************)
\* the create_task calls both services receive: one title, the same in
\* another case, and titles with the characters _ and %
BothArgs ==
    { [title |-> t, description |-> "d1", asset_type |-> "pump",
       asset_id |-> "PUMP_1", building_id |-> "BLD_1",
       priority |-> "MEDIUM", sla_hours |-> 24] :
        t \in { <<"a","b">>, <<"A","B">>, <<"a","_">>, <<"%">> } }

\* one create_task call made on a TaskService and, with the same arguments,
\* on a DBTaskService; request_1 holds what the DB-backed service returned
CreateInBoth ==
    /\ \E a \in BothArgs :
         /\ LET dup == _find_open_duplicate(_tasks, a.title, a.asset_id, a.building_id)
            IN  IF dup # NoneObj
                THEN /\ _tasks' = OnDuplicate(_tasks, dup, a)
                     /\ ret' = dup
                ELSE /\ Len(_tasks) < MaxStore
                     /\ \E id \in TaskIds :
                          /\ _tasks' = Append(_tasks, NewTask(id, a, clock))
                          /\ ret' = NewTask(id, a, clock)
         /\ \E o \in DbCreateOutcomes(db_rows, a, clock) :
              /\ Len(o.rows) <= MaxStore
              /\ db_rows' = o.rows
              /\ req' = [req EXCEPT !["request_1"] =
                           [pc |-> "idle", args |-> a,
                            result |-> IF o.raised THEN [error |-> "IntegrityError"]
                                       ELSE o.result]]
         /\ called' = a
    /\ UNCHANGED << clock, routeVars, concVars, flowVars, apiVars >>

(***************************************************************************)
(* The assessment stage and get_required_skills applied to drawn inputs    *)
(***************************************************************************)
\* what the oracle may write on each of the five lines, the line left out
\* included: values of the prompt's lists, values in another case, values
\* outside the lists
RequiredOptions ==
    { << >> } \cup { << Line("ACTION_REQUIRED", v) >> :
                       v \in { <<"t","r","u","e">>, <<"T","r","u","e">>,
                               <<"f","a","l","s","e">> } }
TypeOptions ==
    { << >> } \cup { << Line("ACTION_TYPE", v) >> : v \in { "urgent_inspection", "replace_pump" } }
PriorityOptions ==
    { << >> } \cup { << Line("PRIORITY", v) >> : v \in { "CRITICAL", "URGENT" } }
SlaOptions ==
    { << >> } \cup { << Line("SLA_HOURS", v) >> :
                       v \in { <<"1","2">>, <<"-","1">>, <<"n","u","l","l">>,
                               <<"s","o","o","n">> } }
ReasoningOptions ==
    { << >> } \cup { << Line("REASONING", "Bearing wear") >> }

DrawnResponses ==
    { a \o t \o p \o h \o r :
        a \in RequiredOptions, t \in TypeOptions, p \in PriorityOptions,
        h \in SlaOptions, r \in ReasoningOptions }

\* the states the stage is entered with: a fresh one, and one that already
\* holds the task of the pump
DrawnStates ==
    LET fresh == build_agent_state("SITE_001", "PUMP_1", None)
    IN  { fresh,
          [fresh EXCEPT !.tasks =
             << MaintenanceTask("PUMP_1", "urgent_inspection", "HIGH", Some(4)) >>] }

\* maintenance_agent_node(state) with a full prediction and the drawn response
AssessCall ==
    /\ call = NoneObj
    /\ \E st \in DrawnStates, lines \in DrawnResponses :
         call' = [fn |-> "maintenance_agent_node", state |-> st, lines |-> lines,
                  out |-> maintenance_agent_node(
                            st,
                            [kind |-> "full", risk_score |-> 85,
                             risk_level |-> RiskLevel(85)],
                            [kind |-> "response", lines |-> lines]).state]
    /\ UNCHANGED << storeVars, routeVars, dbVars, concVars, flowVars,
                    _notifications, response >>

\* the states the forecast stage is entered with: a fresh one, and one that
\* already holds the task of the building
ForecastStates ==
    LET fresh == build_agent_state("SITE_001", None, "BLD_1")
    IN  { fresh,
          [fresh EXCEPT !.tasks =
             << ForecastTask("BLD_1", "capacity_alert", "HIGH", Some(6)) >>] }

\* forecast_agent_node(state) with the drawn response, the forecast model
\* answering or raising
ForecastCall ==
    /\ call = NoneObj
    /\ \E st \in ForecastStates, forecast_ok \in BOOLEAN, lines \in DrawnResponses :
         call' = [fn |-> "forecast_agent_node", state |-> st, lines |-> lines,
                  out |-> forecast_agent_node(st, forecast_ok, lines)]
    /\ UNCHANGED << storeVars, routeVars, dbVars, concVars, flowVars,
                    _notifications, response >>

\* the probabilities model.predict_proba returns, in ten-thousandths; the
\* values halfway between two thousandths are left out, where round() goes
\* by the binary value of the float
RiskProbabilities == { p \in 0..10000 : p % 10 # 5 }

\* round(float(risk_prob), 3), in thousandths
Round3(risk_prob) == (risk_prob + 5) \div 10

\* "Determine risk level", on the probability as the model returned it
LevelOfProbability(risk_prob) ==
    IF risk_prob >= 8000 THEN "CRITICAL"
    ELSE IF risk_prob >= 6000 THEN "HIGH"
    ELSE IF risk_prob >= 3000 THEN "MEDIUM"
    ELSE "LOW"

\* predict_failure_risk from the model's probability on: the risk fields of
\* the record it returns
PredictCall ==
    /\ call = NoneObj
    /\ \E risk_prob \in RiskProbabilities :
         call' = [fn |-> "predict_failure_risk", risk_prob |-> risk_prob,
                  out |-> [risk_score |-> Round3(risk_prob),
                           risk_level |-> LevelOfProbability(risk_prob)]]
    /\ UNCHANGED << storeVars, routeVars, dbVars, concVars, flowVars,
                    _notifications, response >>

\* the tasks routing looks up skills for: one per action type of the
\* prompts, "none", a type of no list, and a task without the field
SkillTasks ==
    { RouteTask("TASK_PUMP_1", t) :
        t \in { "urgent_inspection", "scheduled_maintenance", "enhanced_monitoring",
                "capacity_alert", "capacity_monitoring", "none", "replace_pump" } }
    \cup { [task_id |-> "TASK_PUMP_1", title |-> "Inspect"] }

\* line 102: get_required_skills(task.get("action_type", "general"))
SkillsCall ==
    /\ call = NoneObj
    /\ \E task \in SkillTasks :
         call' = [fn |-> "get_required_skills", task |-> task,
                  out |-> get_required_skills(TaskActionType(task))]
    /\ UNCHANGED << storeVars, routeVars, dbVars, concVars, flowVars,
                    _notifications, response >>

(***************************************************************************)
(* Specifications                                                          *)
(***************************************************************************)
InitStore ==
    /\ _tasks = << >>
    /\ ret = NoneObj
    /\ called = NoneObj
    /\ clock = 0

InitRouting(reg) ==
    /\ TECHNICIANS = reg
    /\ r_pc = "idle"
    /\ r_i = 1
    /\ existing_assignments = << >>
    /\ new_assignments = << >>
    /\ reg0 = reg
    /\ rerun = FALSE
    /\ last = NoLast
    /\ assigned_count = [id \in { reg[i].id : i \in DOMAIN reg } |-> 0]

InitDb ==
    /\ db_rows = << >>
    /\ req = [c \in DbCallers |-> IdleReq]

InitConc == pass = [p \in ConcPasses |-> IdlePass]

InitFlow ==
    /\ wstate = NoneObj
    /\ run = IdleRun
    /\ sweep = IdleSweep

InitApi ==
    /\ _notifications = << >>
    /\ response = NoneObj
    /\ call = NoneObj

\* the process after import: empty store, seeded registry
Init ==
    /\ InitStore
    /\ InitRouting(SeededTechnicians)
    /\ state = FreshState
    /\ InitDb
    /\ InitConc
    /\ InitFlow
    /\ InitApi

\* the in-memory task store
Next == CreateTask \/ Tick
Spec == Init /\ [][Next]_vars

\* the in-memory task store with its history: tasks are created, worked on
\* and listed
NextHistory == HistoryCreate \/ Tick \/ update_status \/ ListTasks
SpecHistory == Init /\ [][NextHistory]_vars

\* concurrent callers of the DB-backed task store
NextDb == \E c \in DbCallers : DbLookup(c) \/ DbInsert(c)
SpecDb == Init /\ [][NextDb]_vars

\* routing passes over the seeded registry
NextRoute == RunRoutingAgent \/ RoutingAgentNode \/ RouteStep \/ RouteReturn
SpecRoute == Init /\ [][NextRoute]_vars

\* two routing passes interleaving over the seeded registry
NextConc == \E p \in ConcPasses : PassSelect(p) \/ PassIncrement(p) \/ PassFlip(p)
SpecConc == Init /\ [][NextConc]_vars

\* workflow runs, one after the other, in one process
NextWorkflow ==
    \/ run_langgraph_workflow
    \/ InvokeForBuilding
    \/ SupervisorNode
    \/ MaintenanceNode
    \/ RoutingNode
    \/ OutOfSteps
SpecWorkflow == Init /\ [][NextWorkflow]_vars

\* one site sweep: monitor_site around the workflow of each pump
NextSweep ==
    \/ monitor_site
    \/ SweepCall
    \/ SupervisorNode
    \/ MaintenanceNode
    \/ RoutingNode
    \/ OutOfSteps
    \/ SweepCollect
    \/ SweepExcept
    \/ SweepReturn
SpecSweep == Init /\ [][NextSweep]_vars

\* water supervisor requests, one after the other
NextWater == run_water_supervisor
SpecWater == Init /\ [][NextWater]_vars

\* the two task services, given the same calls
NextBoth == CreateInBoth \/ Tick
SpecBoth == Init /\ [][NextBoth]_vars

\* the notification store: filled by water supervisor requests, read and listed
NextNotify == run_water_supervisor \/ mark_as_read \/ ListNotifications
SpecNotify == Init /\ [][NextNotify]_vars

\* the assessment stage and the skill lookup, each behaviour one application
\* to a drawn input
NextCalls == AssessCall \/ ForecastCall \/ PredictCall \/ SkillsCall
SpecCalls == Init /\ [][NextCalls]_vars

\* routing_agent_node applied to a drawn registry and a drawn task list
InitAssign ==
    /\ InitStore
    /\ InitDb
    /\ InitConc
    /\ InitFlow
    /\ InitApi
    /\ \E reg \in DrawnRegistries \cup { SeededTechnicians } :
         /\ InitRouting(reg)
    /\ \E tasks \in DrawnTaskLists : state = [FreshState EXCEPT !.tasks = tasks]
NextAssign == RoutingAgentNode \/ RouteStep \/ RouteReturn
SpecAssign == InitAssign /\ [][NextAssign]_vars

(***************************************************************************)
(* Properties of the task store                                            *)
(***************************************************************************)
\* t is OPEN and has the fingerprint (title without regard to case,
\* asset_id, building_id) of f
OpenWithFingerprint(t, f) ==
    /\ t.status = "OPEN"
    /\ Lower(t.title) = Lower(f.title)
    /\ t.asset_id = f.asset_id
    /\ t.building_id = f.building_id

AtMostOneOpenPerFingerprint(tasks) ==
    \A i, j \in DOMAIN tasks :
        (i # j /\ tasks[i].status = "OPEN") => ~OpenWithFingerprint(tasks[j], tasks[i])

\* C1: after any sequence of create_task calls the store holds at most one
\* OPEN task per (title without regard to case, asset_id, building_id).
C1_OneOpenPerFingerprint == AtMostOneOpenPerFingerprint(_tasks)

C1_Witness ==
    /\ Len(_tasks) = 2
    /\ Lower(_tasks[1].title) = Lower(_tasks[2].title)
    /\ called # NoneObj
    /\ ret = _tasks[1]
    /\ called.title # ret.title

\* C2: a create_task call that finds an OPEN task with its fingerprint
\* returns that task and leaves the store as it was: nothing is added and
\* no field of the existing task changes, whatever description, priority and
\* sla_hours the call passes.
C2_DedupHitReturnsExisting ==
    [][ (called' \in CreateArgs /\ create_task(called')) =>
          LET a == called'
          IN  (\E i \in DOMAIN _tasks : OpenWithFingerprint(_tasks[i], a))
                => /\ _tasks' = _tasks
                   /\ \E i \in DOMAIN _tasks :
                        OpenWithFingerprint(_tasks[i], a) /\ ret' = _tasks[i] ]_vars

C2_Witness ==
    /\ called # NoneObj
    /\ \E i \in DOMAIN _tasks : ret = _tasks[i]
    /\ OpenWithFingerprint(ret, called)
    /\ ret.description # called.description
    /\ ret.priority # called.priority
    /\ ret.sla_hours # called.sla_hours
    /\ ret.updated_at < clock

\* C3: under concurrent callers of create_task the table never holds two
\* OPEN rows with one fingerprint.
C3_NoDuplicateOpenRows == AtMostOneOpenPerFingerprint(db_rows)

(***************************************************************************)
(* Properties of the routing engine                                        *)
(***************************************************************************)
\* indices of the available technicians of reg that share a required skill
Tier1(reg, required_skills) ==
    { i \in DOMAIN reg : reg[i].available /\ reg[i].skills \cap required_skills # {} }

\* indices of the available technicians of reg
AvailableIn(reg) == { i \in DOMAIN reg : reg[i].available }

Least(S) == CHOOSE i \in S : \A j \in S : i <= j

\* the members of S with the lowest current_load
LowestLoad(reg, S) ==
    { i \in S : \A j \in S : reg[i].current_load <= reg[j].current_load }

NoTwoForOneTask(assignments) ==
    \A i, j \in DOMAIN assignments :
        i # j => assignments[i].task_id # assignments[j].task_id

\* C4: after any routing pass the assignment list holds at most one
\* assignment per task_id, also when the input names a task_id twice.
C4_OneAssignmentPerTask ==
    /\ NoTwoForOneTask(state.assignments)
    /\ NoTwoForOneTask(existing_assignments \o new_assignments)

\* C5: a pass over a state that was routed before, with the assignments of
\* that pass as existing_assignments, produces no new assignment and leaves
\* every technician's current_load and available flag as they were.
C5_RerouteIdempotent ==
    (r_pc = "loop" /\ rerun) =>
        /\ new_assignments = << >>
        /\ \A k \in DOMAIN TECHNICIANS :
             /\ TECHNICIANS[k].current_load = reg0[k].current_load
             /\ TECHNICIANS[k].available = reg0[k].available

C5_Witness ==
    /\ r_pc = "loop"
    /\ rerun
    /\ r_i > Len(state.tasks)
    /\ Len(state.tasks) = MaxTasks
    /\ \E i \in DOMAIN existing_assignments : existing_assignments[i].status = "assigned"
    /\ last.kind = "skip"

\* C6: over the seeded registry, each technician's current_load is its seeded
\* load plus the number of "assigned" assignments naming it, and it is
\* unavailable exactly when current_load >= max_capacity.
C6_LoadAccounting ==
    \A k \in DOMAIN TECHNICIANS :
        LET tech == TECHNICIANS[k]
        IN  /\ tech.current_load =
                 SeededTechnicians[k].current_load + assigned_count[tech.id]
            /\ (~tech.available) <=> (tech.current_load >= tech.max_capacity)

C6_Witness ==
    \E k \in DOMAIN TECHNICIANS :
        /\ SeededTechnicians[k].available
        /\ ~TECHNICIANS[k].available
        /\ assigned_count[TECHNICIANS[k].id] >= 3
        /\ \E j \in DOMAIN TECHNICIANS :
             TECHNICIANS[j].available /\ assigned_count[TECHNICIANS[j].id] >= 1

\* the registry of the end-to-end scenario
ScenarioRegistry ==
    << Technician("TECH_001", "Technician A", {"pumps", "electrical"}, TRUE, 2, 5),
       Technician("TECH_002", "Technician B", {"pumps", "mechanical"}, TRUE, 1, 5) >>

\* C7: when some available technician shares a required skill, the technician
\* returned is available, shares a required skill and has the lowest
\* current_load of all such; in the scenario registry an urgent_inspection
\* goes to TECH_002, whose load becomes 2.
C7_Tier1LowestLoad ==
    last.kind = "route" =>
        LET reg == last.registry
            t1  == Tier1(reg, last.required_skills)
        IN  /\ t1 # {} =>
                 \E k \in LowestLoad(reg, t1) : reg[k].id = last.tech_id
            /\ (reg = ScenarioRegistry /\ last.task.action_type = "urgent_inspection") =>
                 /\ last.tech_id = "TECH_002"
                 /\ TECHNICIANS[2].current_load = 2

C7_Witness ==
    /\ last.kind = "route"
    /\ last.registry = ScenarioRegistry
    /\ last.task.action_type = "urgent_inspection"
    /\ last.tech_id = "TECH_002"
    /\ TECHNICIANS[2].current_load = 2
    /\ TECHNICIANS[1] = ScenarioRegistry[1]

\* C8: when several available technicians with a required skill share the
\* lowest current_load, the first of them in registry order is returned.
C8_TieBreakFirst ==
    last.kind = "route" =>
        LET reg == last.registry
            t1  == Tier1(reg, last.required_skills)
        IN  t1 # {} => last.tech_id = reg[Least(LowestLoad(reg, t1))].id

C8_Witness ==
    /\ last.kind = "route"
    /\ LET reg  == last.registry
           ties == LowestLoad(reg, Tier1(reg, last.required_skills))
       IN  /\ Cardinality(ties) >= 2
           /\ last.tech_id = reg[Least(ties)].id

\* C9: a technician without a required skill is returned only when no
\* available technician shares one, and then it is the first available
\* technician in registry order, whatever its skills and load.
C9_Fallback ==
    last.kind = "route" =>
        LET reg == last.registry
            t1  == Tier1(reg, last.required_skills)
            av  == AvailableIn(reg)
        IN  /\ (t1 = {} /\ av # {}) => last.tech_id = reg[Least(av)].id
            /\ \A k \in DOMAIN reg :
                 (reg[k].id = last.tech_id /\ reg[k].skills \cap last.required_skills = {})
                     => t1 = {}

C9_Witness ==
    /\ last.kind = "route"
    /\ LET reg == last.registry
           av  == AvailableIn(reg)
       IN  /\ Tier1(reg, last.required_skills) = {}
           /\ Cardinality(av) >= 2
           /\ last.tech_id = reg[Least(av)].id
           /\ \E j \in av : reg[j].current_load < reg[Least(av)].current_load

\* the assignment appended by the last loop iteration
LastRecord == new_assignments[Len(new_assignments)]

\* C10: a routed task is escalated exactly when no technician is available
\* at the moment it is processed; the escalation is an assignment with
\* technician_id None, the ESCALATED name and status "escalated", and it
\* leaves the registry as it was.
C10_Escalation ==
    last.kind = "route" =>
        /\ LastRecord.task_id = last.task.task_id
        /\ (LastRecord.status = "escalated") <=> (AvailableIn(last.registry) = {})
        /\ LastRecord.status = "escalated" =>
             /\ LastRecord.technician_id = None
             /\ LastRecord.technician_name = "ESCALATED - No available technician"
             /\ TECHNICIANS = last.registry
             /\ ENABLED (RouteStep \/ RouteReturn)
        /\ LastRecord.status # "escalated" =>
             /\ LastRecord.status = "assigned"
             /\ LastRecord.technician_id = last.tech_id
             /\ last.tech_id # None

C10_Witness ==
    /\ last.kind = "route"
    /\ LastRecord.status = "escalated"
    /\ LastRecord.technician_id = None
    /\ AvailableIn(last.registry) = {}
    /\ TECHNICIANS = last.registry
    /\ r_i > Len(state.tasks)

\* the registry reg after the assignments recs: each "assigned" record added
\* one to its technician's load, and a technician that got one is unavailable
\* once its load has reached max_capacity
AfterAssignments(reg, recs) ==
    [k \in DOMAIN reg |->
        LET n == Cardinality({ j \in DOMAIN recs :
                                 /\ recs[j].status = "assigned"
                                 /\ recs[j].technician_id = reg[k].id })
            load == reg[k].current_load + n
        IN  [reg[k] EXCEPT !.current_load = load,
                           !.available = @ /\ (n = 0 \/ load < reg[k].max_capacity)]]

\* the tasks among the first n of tasks that the skip test lets through
Routed(tasks, existing, n) ==
    SelectSeq(SubSeq(tasks, 1, n),
              LAMBDA t : ~ \E i \in DOMAIN existing : existing[i].task_id = t.task_id)

\* C11: within one pass the tasks are processed in input order, and each
\* task's technician is the one assign_technician returns on the registry as
\* updated by every earlier assignment of the same pass.
C11_SeesEarlierAssignments ==
    r_pc = "loop" =>
        /\ LET routed == Routed(state.tasks, existing_assignments, r_i - 1)
           IN  /\ Len(new_assignments) = Len(routed)
               /\ \A j \in DOMAIN routed : new_assignments[j].task_id = routed[j].task_id
        /\ last.kind \in { "route", "skip" } => last.task = state.tasks[r_i - 1]
        /\ last.kind = "route" =>
             LET earlier == SubSeq(new_assignments, 1, Len(new_assignments) - 1)
                 seen    == AfterAssignments(reg0, earlier)
             IN  /\ last.registry = seen
                 /\ last.tech_id = assign_technician(seen, last.required_skills)

\* the second task of a pass went to another technician than it would have
\* on the registry of the pass's start
C11_Witness ==
    /\ r_pc = "loop"
    /\ last.kind = "route"
    /\ Len(new_assignments) = 2
    /\ new_assignments[1].status = "assigned"
    /\ last.tech_id # assign_technician(reg0, last.required_skills)
    /\ last.tech_id = assign_technician(last.registry, last.required_skills)

\* C12: no step of any routing pass turns a technician's available flag from
\* false to true or lowers its current_load.
C12_RegistryMonotone ==
    [][ \A k \in DOMAIN TECHNICIANS :
          /\ TECHNICIANS'[k].current_load >= TECHNICIANS[k].current_load
          /\ TECHNICIANS'[k].available => TECHNICIANS[k].available ]_vars

\* a technician that a pass made unavailable is still unavailable, with its
\* load, in a later pass that has routed a task
C12_Witness ==
    /\ r_pc = "loop"
    /\ last.kind = "route"
    /\ \E k \in DOMAIN TECHNICIANS :
         /\ SeededTechnicians[k].available
         /\ ~ reg0[k].available
         /\ ~ TECHNICIANS[k].available
         /\ TECHNICIANS[k].current_load >= TECHNICIANS[k].max_capacity

\* C13: with two passes interleaving on the shared registry no technician's
\* current_load exceeds its max_capacity, and a pass never holds, for its
\* increment, a technician that has become unavailable.
C13_SerializedRegistry ==
    /\ \A k \in DOMAIN TECHNICIANS :
         TECHNICIANS[k].current_load <= TECHNICIANS[k].max_capacity
    /\ \A p \in ConcPasses :
         pass[p].pc = "increment" =>
             TECHNICIANS[TechIndex(TECHNICIANS, pass[p].tech_id)].available

(***************************************************************************)
(* Properties of the workflow and of the site sweep                        *)
(***************************************************************************)
\* this step is the run of node
Visit(node) ==
    /\ run.pc = node
    /\ run'.node = node
    /\ run'.steps = run.steps + 1

\* the last node run was the assessment stage and its oracle failed: the
\* analysis is in the state and the except branch ran
OracleFailed ==
    /\ run.node = "maintenance"
    /\ run.raised
    /\ wstate.risk_score # NoneObj

C15_RunReachesEnd ==
    ~ ( /\ run.pc = "GraphRecursionError"
        /\ wstate.pump_id # None
        /\ wstate.risk_score = NoneObj )

\* C16: when the except branch of the assessment stage ran, the stage
\* returned: action_required is false, the next stage is supervisor, the
\* messages it returned are its opening message and one diagnostic message,
\* and tasks and assignments are as before.
C16_FailedAssessmentDegrades ==
    [][ (Visit("maintenance") /\ run'.raised) =>
            /\ wstate'.action_required = FALSE
            /\ wstate'.next_agent = "supervisor"
            /\ run'.pc = "supervisor"
            /\ run'.returned = << "maintenance: analyzing", "maintenance: error" >>
            /\ wstate'.messages = wstate.messages \o run'.returned
            /\ wstate'.tasks = wstate.tasks
            /\ wstate'.assignments = wstate.assignments ]_vars

\* the assessment stage has failed twice in one run, once before and once
\* after the analysis
C16_Witness ==
    /\ OracleFailed
    /\ run.pc = "supervisor"
    /\ run.steps = 4
    /\ wstate.messages = << "supervisor: orchestrating",
                            "maintenance: analyzing", "maintenance: error",
                            "supervisor: orchestrating",
                            "maintenance: analyzing", "maintenance: error" >>

\* C17: a run started for a building (building_id set, no pump) that has
\* reached end has visited the forecast assessment stage.
C17_ForecastVisited ==
    (run.pc = "end" /\ wstate.pump_id = None /\ wstate.building_id # None)
        => "forecast" \in run.visited

\* C18: a sweep of a configured site returns a summary record in which every
\* pump whose workflow did not fail is analyzed, whatever failed before it,
\* and every failure is counted in low_count.
C18_SweepIsolatesFailures ==
    (sweep.pc = "returned" /\ sweep.site_id \in DOMAIN SITES) =>
        LET pumps   == SITES[sweep.site_id].pumps
            results == sweep.results
            lows    == { j \in DOMAIN results.details :
                           results.details[j].priority
                               \notin { "CRITICAL", "HIGH", "MEDIUM" } }
        IN  /\ results.site_id = sweep.site_id
            /\ results.pumps_analyzed = Len(pumps) - Cardinality(sweep.failed)
            /\ Len(results.details) = results.pumps_analyzed
            /\ \A i \in DOMAIN pumps :
                 i \notin sweep.failed =>
                     \E j \in DOMAIN results.details :
                         results.details[j].pump_id = pumps[i]
            /\ results.low_count = Cardinality(sweep.failed) + Cardinality(lows)

\* the first pump failed, the last one was analyzed and needed action
C18_Witness ==
    /\ sweep.pc = "returned"
    /\ sweep.site_id \in DOMAIN SITES
    /\ 1 \in sweep.failed
    /\ sweep.results.pumps_analyzed >= 2
    /\ sweep.results.low_count = Cardinality(sweep.failed)
    /\ sweep.results.details[Len(sweep.results.details)].pump_id = "PUMP_BLD_002_02"
    /\ sweep.results.details[Len(sweep.results.details)].priority = "CRITICAL"

\* C19: when the oracle is unavailable or raises, action_required is false
\* and the stage adds no task, whatever the risk score.
C19_OracleFailureNoTask ==
    [][ (Visit("maintenance") /\ run'.raised /\ wstate'.risk_score # NoneObj) =>
            /\ wstate'.action_required = FALSE
            /\ wstate'.tasks = wstate.tasks ]_vars

\* the oracle failed on a CRITICAL score
C19_Witness ==
    /\ OracleFailed
    /\ wstate.risk_score = Some(85)
    /\ wstate.risk_level = "CRITICAL"
    /\ wstate.action_required = FALSE
    /\ wstate.tasks = << >>

\* C20: when the oracle is unavailable or raises, the decision in the state
\* is action_type "none", priority "LOW", sla_hours None and reasoning
\* "No reasoning provided".
C20_OracleFailureDefaults ==
    OracleFailed =>
        /\ wstate.action_type = "none"
        /\ wstate.priority = "LOW"
        /\ wstate.sla_hours = NoneObj
        /\ wstate.reasoning = "No reasoning provided"

(***************************************************************************)
(* The decision parsed from the oracle's response                          *)
(***************************************************************************)
IsAssessCall == "fn" \in DOMAIN call /\ call.fn = "maintenance_agent_node"

\* the response has a line of this key
HasLine(lines, key) ==
    \E i \in DOMAIN lines : "key" \in DOMAIN lines[i] /\ lines[i].key = key

\* the value of the last such line
LineValue(lines, key) ==
    lines[CHOOSE i \in DOMAIN lines :
            /\ "key" \in DOMAIN lines[i] /\ lines[i].key = key
            /\ \A j \in DOMAIN lines :
                 ("key" \in DOMAIN lines[j] /\ lines[j].key = key) => j <= i].value

\* C21: for every oracle response, each decision field whose line is missing
\* takes its fixed default whatever the other lines are (ACTION_REQUIRED
\* false, ACTION_TYPE "none", PRIORITY "LOW", REASONING "No reasoning
\* provided", SLA_HOURS None when missing, "null" or not an integer), and a
\* field whose line is there is read from that line.
C21_MissingFieldsDefault ==
    IsAssessCall =>
        LET lines == call.lines
            d     == call.out
        IN  /\ IF HasLine(lines, "ACTION_REQUIRED")
               THEN d.action_required =
                      (Lower(LineValue(lines, "ACTION_REQUIRED")) = <<"t","r","u","e">>)
               ELSE d.action_required = FALSE
            /\ d.action_type = IF HasLine(lines, "ACTION_TYPE")
                               THEN LineValue(lines, "ACTION_TYPE") ELSE "none"
            /\ d.priority = IF HasLine(lines, "PRIORITY")
                            THEN LineValue(lines, "PRIORITY") ELSE "LOW"
            /\ d.reasoning = IF HasLine(lines, "REASONING")
                             THEN LineValue(lines, "REASONING")
                             ELSE "No reasoning provided"
            /\ ( \/ ~ HasLine(lines, "SLA_HOURS")
                 \/ LineValue(lines, "SLA_HOURS") = <<"n","u","l","l">>
                 \/ ~ IsIntegerLiteral(LineValue(lines, "SLA_HOURS")) )
                 => d.sla_hours = NoneObj

\* C21 witness: a response with ACTION_TYPE and a non-integer SLA_HOURS and
\* without PRIORITY and REASONING was parsed: the two missing fields took
\* their defaults and the action type was read from its line.
C21_Witness ==
    /\ IsAssessCall
    /\ HasLine(call.lines, "ACTION_TYPE")
    /\ HasLine(call.lines, "SLA_HOURS")
    /\ LineValue(call.lines, "SLA_HOURS") = <<"s","o","o","n">>
    /\ ~ HasLine(call.lines, "PRIORITY")
    /\ ~ HasLine(call.lines, "REASONING")
    /\ call.out.action_type = "urgent_inspection"
    /\ call.out.priority = "LOW"
    /\ call.out.reasoning = "No reasoning provided"
    /\ call.out.sla_hours = NoneObj

Priorities == { "CRITICAL", "HIGH", "MEDIUM", "LOW" }
ActionTypes == { "urgent_inspection", "scheduled_maintenance", "enhanced_monitoring",
                 "capacity_alert", "capacity_monitoring", "none" }

\* C22: for every oracle response, a malformed PRIORITY or ACTION_TYPE value
\* included, the decision and every task created from it have a priority
\* among CRITICAL, HIGH, MEDIUM, LOW and an action type among the six listed.
C22_DecisionInVocabulary ==
    IsAssessCall =>
        /\ call.out.priority \in Priorities
        /\ call.out.action_type \in ActionTypes
        /\ \A i \in DOMAIN call.out.tasks :
             /\ call.out.tasks[i].priority \in Priorities
             /\ call.out.tasks[i].action_type \in ActionTypes


\* C23: the assessment stage adds a task to the workflow state only when
\* its decision has action_required = true (then exactly one, at the end);
\* when action_required is false the task list is as it was.
C23_TaskOnlyWhenRequired ==
    [][ Visit("maintenance") =>
          /\ wstate'.tasks # wstate.tasks =>
               /\ wstate'.action_required
               /\ Len(wstate'.tasks) = Len(wstate.tasks) + 1
               /\ SubSeq(wstate'.tasks, 1, Len(wstate.tasks)) = wstate.tasks
          /\ ~ wstate'.action_required => wstate'.tasks = wstate.tasks ]_vars

\* C23 witness: the oracle answered, the decision was action_required = false
\* with an action type and a priority given, and the run ended with no task.
C23_Witness ==
    /\ run.pc = "end"
    /\ "maintenance" \in run.visited
    /\ ~ wstate.action_required
    /\ wstate.reasoning = "All normal"
    /\ wstate.priority = "LOW"
    /\ wstate.tasks = << >>

(***************************************************************************)
(* The water supervisor                                                    *)
(***************************************************************************)
\* C24: a notification is created only when a task is created: a run whose
\* create_task returned an existing OPEN task, or whose tank level is
\* NORMAL, adds none, so the notifications never outnumber the tasks of the
\* store.
C24_NotificationsWithinTasks == Len(_notifications) <= Len(db_rows)

(***************************************************************************)
(* The task store and its history                                          *)
(***************************************************************************)
\* some task of the store that is not OPEN has the fingerprint
ClosedWithFingerprint(tasks, a) ==
    \E i \in DOMAIN tasks :
        /\ tasks[i].status \in { "IN_PROGRESS", "DONE", "CANCELLED" }
        /\ Lower(tasks[i].title) = Lower(a.title)
        /\ tasks[i].asset_id = a.asset_id
        /\ tasks[i].building_id = a.building_id

\* C25: when no OPEN task has the fingerprint, create_task adds exactly one
\* task, with status OPEN, created_at = updated_at = now and the given fields,
\* returns it and leaves every other task as it was; tasks of the same
\* fingerprint that are IN_PROGRESS, DONE or CANCELLED do not block it.
C25_CreatesWhenNoOpenDuplicate ==
    [][ ( /\ called' \in HistoryArgs
          /\ create_task(called')
          /\ ~ \E i \in DOMAIN _tasks : OpenWithFingerprint(_tasks[i], called') ) =>
        \E id \in TaskIds :
          LET a == called'
              t == [task_id |-> id, title |-> a.title, description |-> a.description,
                    asset_type |-> a.asset_type, asset_id |-> a.asset_id,
                    building_id |-> a.building_id, priority |-> a.priority,
                    sla_hours |-> a.sla_hours, status |-> "OPEN",
                    created_at |-> clock, updated_at |-> clock, notes |-> None]
          IN  /\ _tasks' = Append(_tasks, t)
              /\ ret' = t ]_vars

\* C25 witness: create_task was called with a fingerprint that a CANCELLED
\* task of the store has, and the store now ends with the new OPEN task.
C25_Witness ==
    /\ called \in HistoryArgs
    /\ Len(_tasks) = 2
    /\ _tasks[1].status = "CANCELLED"
    /\ ClosedWithFingerprint(<< _tasks[1] >>, called)
    /\ _tasks[2].status = "OPEN"
    /\ _tasks[2].created_at = _tasks[2].updated_at
    /\ ret = _tasks[2]

\* C26: after any sequence of create_task calls the tasks of the store have
\* pairwise distinct task_ids.
C26_DistinctTaskIds ==
    \A i, j \in DOMAIN _tasks : i # j => _tasks[i].task_id # _tasks[j].task_id

\* a task but for the fields a status transition writes
Identity(t) == [t EXCEPT !.status = "OPEN", !.updated_at = 0, !.notes = None]

IsListCall(c) == "op" \in DOMAIN c /\ c.op = "list_tasks"

\* C27: no operation of the task store removes a task: every task of the
\* store is still there, in its place, after every step, and a step that
\* lists tasks leaves the store as it was.
C27_NoTaskRemoved ==
    [][ /\ Len(_tasks') >= Len(_tasks)
        /\ \A i \in DOMAIN _tasks : Identity(_tasks'[i]) = Identity(_tasks[i])
        /\ IsListCall(called') => _tasks' = _tasks ]_vars

\* C27 witness: list_tasks returned one of the two tasks of the store, and
\* the store still holds both.
C27_Witness ==
    /\ IsListCall(called)
    /\ Len(_tasks) = 2
    /\ Len(ret) = 1
    /\ called.limit = NoneObj

\* the number of times t occurs in seq
Occurrences(seq, t) == Cardinality({ i \in DOMAIN seq : seq[i] = t })

\* t passes every filter of call c; a filter that is None or empty is not given
PassesFilters(t, c) ==
    /\ (c.building_id # None /\ c.building_id # "") => t.building_id = c.building_id
    /\ (c.status # None /\ c.status # "") => t.status = c.status

C29_LimitBoundsResult ==
    (IsListCall(called) /\ called.limit # NoneObj /\ called.limit.some >= 0) =>
        LET n   == called.limit.some
            all == list_tasks(_tasks, called.building_id, called.status, NoneObj)
        IN  /\ Len(ret) <= n
            /\ ret = SubSeq(all, 1, IF n < Len(all) THEN n ELSE Len(all))

(***************************************************************************)
(* The skill lookup                                                        *)
(***************************************************************************)
IsSkillsCall == "fn" \in DOMAIN call /\ call.fn = "get_required_skills"

\* C30: get_required_skills returns the table entry for each of the five
\* mapped action types and {general} for every other action type, "none"
\* and a task without an action_type field included.
C30_SkillTable ==
    IsSkillsCall =>
        LET task == call.task
            has  == "action_type" \in DOMAIN task
        IN  /\ (has /\ task.action_type = "urgent_inspection") =>
                  call.out = {"pumps", "diagnostics"}
            /\ (has /\ task.action_type = "scheduled_maintenance") =>
                  call.out = {"pumps", "mechanical"}
            /\ (has /\ task.action_type = "enhanced_monitoring") =>
                  call.out = {"sensors"}
            /\ (has /\ task.action_type = "capacity_alert") =>
                  call.out = {"pumps", "electrical"}
            /\ (has /\ task.action_type = "capacity_monitoring") =>
                  call.out = {"sensors"}
            /\ ( \/ ~ has
                 \/ task.action_type \notin
                      { "urgent_inspection", "scheduled_maintenance",
                        "enhanced_monitoring", "capacity_alert",
                        "capacity_monitoring" } ) =>
                  call.out = {"general"}

\* C30 witness: the skills of a task without an action_type field were
\* looked up and came out as {general}.
C30_Witness ==
    /\ IsSkillsCall
    /\ "action_type" \notin DOMAIN call.task
    /\ call.out = {"general"}

(***************************************************************************)
(* The notification store                                                  *)
(***************************************************************************)
IsMarkCall(r) == "op" \in DOMAIN r /\ r.op = "mark_as_read"

\* a notification but for its read flag
Unflagged(n) == [n EXCEPT !.read = FALSE]

\* C31: the notification store is append-only except for read flips: every
\* step keeps every notification in its place with every field but read, and
\* never turns read back to false; a step that adds a notification adds one,
\* unread, at the end and changes no other; mark_as_read changes nothing but
\* the read flag of one notification with the given id, to true, and nothing
\* at all when no notification has the id.
C31_AppendOnlyButRead ==
    [][ /\ Len(_notifications') >= Len(_notifications)
        /\ \A i \in DOMAIN _notifications :
             /\ Unflagged(_notifications'[i]) = Unflagged(_notifications[i])
             /\ _notifications[i].read => _notifications'[i].read
        /\ Len(_notifications') > Len(_notifications) =>
             /\ Len(_notifications') = Len(_notifications) + 1
             /\ ~ _notifications'[Len(_notifications')].read
             /\ SubSeq(_notifications', 1, Len(_notifications)) = _notifications
        /\ IsMarkCall(response') =>
             /\ Len(_notifications') = Len(_notifications)
             /\ \A i \in DOMAIN _notifications :
                  _notifications'[i] # _notifications[i] =>
                     /\ _notifications[i].notification_id = response'.notification_id
                     /\ ~ _notifications[i].read
                     /\ _notifications'[i].read
                     /\ \A j \in DOMAIN _notifications :
                          j # i => _notifications'[j] = _notifications[j]
             /\ (\A i \in DOMAIN _notifications :
                   _notifications[i].notification_id # response'.notification_id)
                  => _notifications' = _notifications ]_vars

\* C31 witness: of two notifications, the second was marked as read by its id
\* and the first is still unread.
C31_Witness ==
    /\ IsMarkCall(response)
    /\ Len(_notifications) = 2
    /\ ~ _notifications[1].read
    /\ _notifications[2].read
    /\ _notifications[2].notification_id = response.notification_id

(***************************************************************************)
(* The two task services                                                   *)
(***************************************************************************)
\* a task up to task_id and timestamps
UpToIdAndTime(t) == [t EXCEPT !.task_id = None, !.created_at = 0, !.updated_at = 0]

\* C32: the DB-backed task service behaves like the in-memory one: after
\* every create_task call made on both with the same arguments, titles with
\* % or _ included, the two returned the same task up to task_id and
\* timestamps (both a dedup hit, or both a new task).
C32_ServicesAgree ==
    (called \in BothArgs /\ "error" \notin DOMAIN req["request_1"].result) =>
        UpToIdAndTime(req["request_1"].result) = UpToIdAndTime(ret)

(***************************************************************************)
(* Routing: capacity and frame                                             *)
(***************************************************************************)
\* C33: in every state reachable from the seeded registry by sequential
\* routing passes every technician has current_load <= max_capacity.
C33_LoadWithinCapacity ==
    \A k \in DOMAIN TECHNICIANS :
        TECHNICIANS[k].current_load <= TECHNICIANS[k].max_capacity

\* C33 witness: a technician seeded below its capacity has been loaded up to
\* it, and a task was routed after that, against a registry in which the
\* technician was already full.
C33_Witness ==
    /\ r_pc = "loop"
    /\ last.kind = "route"
    /\ \E k \in DOMAIN TECHNICIANS :
         /\ SeededTechnicians[k].current_load < SeededTechnicians[k].max_capacity
         /\ last.registry[k].current_load = last.registry[k].max_capacity
         /\ TECHNICIANS[k].current_load = TECHNICIANS[k].max_capacity
         /\ \E s \in last.required_skills : s \in TECHNICIANS[k].skills

\* C34: a routing pass returns the assignments it found, unchanged and in
\* order, followed by one new assignment (assigned or escalated) for each
\* input task that had none, in input order, so that every input task has an
\* assignment in the result; no step of the pass changes the task list.
C34_PassFrame ==
    [][ /\ r_pc = "loop" => state'.tasks = state.tasks
        /\ (r_pc = "loop" /\ r_pc' = "idle") =>
             LET before == state.assignments
                 after  == state'.assignments
                 new    == SubSeq(after, Len(before) + 1, Len(after))
                 open   == SelectSeq(state.tasks, LAMBDA t :
                              \A i \in DOMAIN before : before[i].task_id # t.task_id)
             IN  /\ Len(after) >= Len(before)
                 /\ SubSeq(after, 1, Len(before)) = before
                 /\ Len(new) = Len(open)
                 /\ \A i \in DOMAIN new :
                      /\ new[i].task_id = open[i].task_id
                      /\ new[i].status \in { "assigned", "escalated" }
                 /\ \A i \in DOMAIN state.tasks :
                      \E j \in DOMAIN after :
                         after[j].task_id = state.tasks[i].task_id ]_vars

\* C34 witness: a pass over two tasks has returned one assignment for each,
\* in input order, the first assigned and the second escalated.
C34_Witness ==
    /\ r_pc = "idle"
    /\ state.routed
    /\ Len(state.tasks) = 2
    /\ state.tasks[1].task_id # state.tasks[2].task_id
    /\ Len(state.assignments) = 2
    /\ state.assignments[1].task_id = state.tasks[1].task_id
    /\ state.assignments[1].status = "assigned"
    /\ state.assignments[2].task_id = state.tasks[2].task_id
    /\ state.assignments[2].status = "escalated"

(***************************************************************************)
(* The workflow run as a whole                                             *)
(***************************************************************************)
\* the number of assignments of the state that name the task
AssignmentsOf(st, task_id) ==
    Cardinality({ i \in DOMAIN st.assignments : st.assignments[i].task_id = task_id })

\* C35: in a workflow run started from a fresh state with a pump_id, the
\* routing stage runs at most once and only after the assessment stage, and
\* when the run reaches end the state holds at most one task and every task
\* of the state has exactly one assignment.
C35_RunEndState ==
    [][ (wstate # NoneObj /\ wstate.pump_id # None) =>
          /\ Visit("routing") =>
               /\ "routing" \notin run.visited
               /\ "maintenance" \in run.visited
          /\ (run.pc # "end" /\ run'.pc = "end") =>
               /\ Len(wstate'.tasks) <= 1
               /\ \A i \in DOMAIN wstate'.tasks :
                    AssignmentsOf(wstate', wstate'.tasks[i].task_id) = 1 ]_vars

\* C35 witness: a run for a pump reached end through the assessment and the
\* routing stage, with one task and one assignment, for that task.
C35_Witness ==
    /\ run.pc = "end"
    /\ wstate.pump_id # None
    /\ run.visited = { "supervisor", "maintenance", "routing" }
    /\ Len(wstate.tasks) = 1
    /\ Len(wstate.assignments) = 1
    /\ wstate.assignments[1].task_id = wstate.tasks[1].task_id

\* no two tasks of the list have the same task_id
DistinctTaskIds(tasks) ==
    \A i, j \in DOMAIN tasks : tasks[i].task_id = tasks[j].task_id => i = j

\* the list holds a task of this id
HoldsTask(tasks, task_id) == \E i \in DOMAIN tasks : tasks[i].task_id = task_id

\* the call is one of forecast_agent_node
IsForecastCall == "fn" \in DOMAIN call /\ call.fn = "forecast_agent_node"

\* the task_id the stage of the call files its task under
StageTaskId ==
    IF IsAssessCall
    THEN MaintenanceTask(call.state.pump_id, "none", "LOW", NoneObj).task_id
    ELSE ForecastTask(call.state.building_id, "none", "LOW", NoneObj).task_id

\* C36: an assessment stage (maintenance or forecast) never leaves two tasks
\* of one task_id in the task list of the state: when it decides
\* action_required = true for an asset whose task (TASK_<pump_id> or
\* TASK_FORECAST_<building_id>) is already in the state, it adds no task
\* and returns the list as it was.
C36_NoDuplicateTask ==
    (IsAssessCall \/ IsForecastCall) =>
        /\ DistinctTaskIds(call.state.tasks) => DistinctTaskIds(call.out.tasks)
        /\ (call.out.action_required /\ HoldsTask(call.state.tasks, StageTaskId))
             => call.out.tasks = call.state.tasks

\* C36 witness: the maintenance stage was entered with the pump's task in the
\* state and decided that action is required; the state still holds that one
\* task.
C36_Witness ==
    /\ IsAssessCall
    /\ call.out.action_required
    /\ Len(call.state.tasks) = 1
    /\ HoldsTask(call.state.tasks, StageTaskId)
    /\ call.out.tasks = call.state.tasks

(***************************************************************************)
(* The site sweep's counters                                               *)
(***************************************************************************)
\* C37: when a sweep over a configured site has returned, the four priority
\* counts add up to the number of pumps configured for the site,
\* pumps_analyzed is the number of detail records, and pumps_analyzed plus
\* the number of pumps whose workflow failed is the number of pumps.
C37_SweepCounts ==
    (sweep.pc = "returned" /\ sweep.site_id \in DOMAIN SITES) =>
        LET results == sweep.results
            pumps   == SITES[sweep.site_id].pumps
        IN  /\ results.critical_count + results.high_count
                 + results.medium_count + results.low_count = Len(pumps)
            /\ results.pumps_analyzed = Len(results.details)
            /\ results.pumps_analyzed + Cardinality(sweep.failed) = Len(pumps)

\* C37 witness: a sweep returned in which one pump's workflow failed, the
\* others were analyzed, and a priority other than LOW was counted.
C37_Witness ==
    /\ sweep.pc = "returned"
    /\ sweep.site_id \in DOMAIN SITES
    /\ Cardinality(sweep.failed) = 1
    /\ sweep.results.pumps_analyzed = Len(SITES[sweep.site_id].pumps) - 1
    /\ sweep.results.critical_count + sweep.results.high_count >= 1
    /\ \E i \in DOMAIN sweep.results.details :
         sweep.results.details[i].priority = None

(***************************************************************************)
(* The water supervisor's task                                             *)
(***************************************************************************)
\* the response is the result of a run that returned
IsRunResult(r) == "status" \in DOMAIN r /\ "created_tasks" \in DOMAIN r

\* the one task of the list has this title, priority and SLA
OneTaskOf(created_tasks, title, priority, sla_hours) ==
    /\ Len(created_tasks) = 1
    /\ created_tasks[1].title = title
    /\ created_tasks[1].priority = priority
    /\ created_tasks[1].sla_hours = sla_hours

\* C38: a water supervisor run adds at most one task to the store; a run
\* that returns for a tank level <= 20% returns the CRITICAL "Emergency
\* tanker refill" task with SLA 2, for a level in (20%, 30%] the HIGH
\* "Schedule tanker refill" task with SLA 6, and for a level above 30% or a
\* building without tank data it returns no task and adds neither a task nor
\* a notification.
C38_WaterRunTask ==
    [][ /\ Len(db_rows') <= Len(db_rows) + 1
        /\ SubSeq(db_rows', 1, Len(db_rows)) = db_rows
        /\ IsRunResult(response') =>
             LET tank_status   == response'.tank_status
                 created_tasks == response'.created_tasks
                 has_level     == "level_percentage" \in DOMAIN tank_status
             IN  /\ (has_level /\ tank_status.level_percentage <= 20) =>
                      OneTaskOf(created_tasks,
                                WaterTaskArgs("CRITICAL", 0, None, None).title,
                                "CRITICAL", 2)
                 /\ (has_level /\ tank_status.level_percentage > 20
                               /\ tank_status.level_percentage <= 30) =>
                      OneTaskOf(created_tasks,
                                WaterTaskArgs("LOW", 0, None, None).title,
                                "HIGH", 6)
                 /\ (~ has_level \/ tank_status.level_percentage > 30) =>
                      /\ created_tasks = << >>
                      /\ db_rows' = db_rows
                      /\ _notifications' = _notifications ]_vars

\* C38 witness: a run for a tank at exactly 30% returned the HIGH "Schedule
\* tanker refill" task while the store already held the CRITICAL one.
C38_Witness ==
    /\ IsRunResult(response)
    /\ response.tank_status.status = "ok"
    /\ response.tank_status.level_percentage = 30
    /\ Len(response.created_tasks) = 1
    /\ response.created_tasks[1].priority = "HIGH"
    /\ response.created_tasks[1].sla_hours = 6
    /\ Len(db_rows) = 2
    /\ db_rows[1].priority = "CRITICAL"
    /\ db_rows[2] = response.created_tasks[1]

(***************************************************************************)
(* The failure-risk result                                                 *)
(***************************************************************************)
\* the call is one of predict_failure_risk
IsPredictCall == "fn" \in DOMAIN call /\ call.fn = "predict_failure_risk"

\* the bucket of a score given in thousandths
BucketOf(risk_score) ==
    IF risk_score >= 800 THEN "CRITICAL"
    ELSE IF risk_score >= 600 THEN "HIGH"
    ELSE IF risk_score >= 300 THEN "MEDIUM"
    ELSE "LOW"

\* C39: in every model-produced result of predict_failure_risk, risk_level
\* is the bucket of the returned risk_score, the score rounded to three
\* decimals: CRITICAL from 0.8, HIGH from 0.6, MEDIUM from 0.3, LOW below.
C39_LevelIsBucketOfScore ==
    IsPredictCall => call.out.risk_level = BucketOf(call.out.risk_score)

====
